---- MODULE Spec2Model ----
(***************************************************************************)
(* Job-buddy data-access layer (backend/models, backend/database).         *)
(*                                                                         *)
(* The store is one relational database; every table is a function from    *)
(* the ids of its rows to the rows.  A model object (Application, Streak,  *)
(* User, ...) is a copy of a row taken when it was loaded: the copies are  *)
(* kept in the *Inst variables, so an object that outlives a write made    *)
(* through another object is part of the state.  Dates are day numbers     *)
(* (day 0 is a Saturday); date.isoformat / fromisoformat are one-to-one on *)
(* dates, so a stored ISO string is the day number it was made from.       *)
(* Strings that the code inspects (emails, passwords) are sequences of     *)
(* characters.                                                             *)
(***************************************************************************)
EXTENDS Integers, Sequences, FiniteSets, TLC

\* ----------------------------------------------------------------- bounds
MaxDay == 2          \* the clock runs over days 0..MaxDay
MaxApps == 1         \* application ids are 1..MaxApps
MaxUsers == 2        \* user ids are 1..MaxUsers
MaxCompanies == 2    \* company ids are 1..MaxCompanies
MaxContacts == 2     \* contact ids are 1..MaxContacts
MaxOutreach == 2     \* outreach ids are 1..MaxOutreach
MaxGoals == 3        \* goal ids are 1..MaxGoals
MaxOwned == 1        \* notification and CV analysis ids are 1..MaxOwned
MaxQuests == 3       \* user quest ids are 1..MaxQuests
MaxOnboarding == 3   \* onboarding ids are 1..MaxOnboarding
MaxPoints == 30      \* total_points stays within 0..MaxPoints
MaxRun == 6          \* the longest run of one letter in a password
MaxRows == 4         \* rows created in all, where a specification counts them
FirstWeekday == 5    \* date.weekday() of day 0 of the clock (a Saturday)

\* ------------------------------------------------------------- vocabulary
NULL == "NULL"       \* SQL NULL / Python None, for a string
EMPTY == ""          \* the empty string (falsy, but "is not None")
NoDate == 0 - 100      \* SQL NULL / Python None, for a date column or argument
EmptyDate == 0 - 101   \* the empty string given where an ISO date is expected
Slots == {"h1", "h2"}   \* handles: the model objects a caller may hold
Days == 0..MaxDay
NoInst == [id |-> 0]

VARIABLES
    today,          \* date.today()
    last,           \* the last call made and how it ended: [op, res, arg, slot, str]
    users,          \* table users: id -> row
    userSeq,        \* last rowid handed out by table users
    userInst,       \* slot -> loaded User object, or NoInst
    streaks,        \* table streaks: user_id -> row (one per user)
    streakInst,     \* slot -> loaded Streak object, or NoInst
    companies,      \* table companies: id -> row
    companySeq,
    contacts,       \* table contacts: id -> row
    contactSeq,
    applications,   \* table applications: id -> row
    appSeq,
    appInst,        \* slot -> loaded Application object, or NoInst
    outreach,       \* table outreach_activities: id -> row
    outreachSeq,
    goals,          \* table goals: id -> row
    goalSeq,
    notifications,  \* table notifications: id -> row
    notifSeq,
    userQuests,     \* table user_quests: id -> row
    questSeq,
    cvAnalyses,     \* table cv_analyses: id -> row
    cvSeq,
    onboarding,     \* table onboarding_data: id -> row
    onbSeq

tables == <<users, streaks, companies, contacts, applications, outreach, goals,
            notifications, userQuests, cvAnalyses, onboarding>>
seqVars == <<userSeq, companySeq, contactSeq, appSeq, outreachSeq, goalSeq,
             notifSeq, questSeq, cvSeq, onbSeq>>
instVars == <<userInst, streakInst, appInst>>

vars == <<today, last, users, userSeq, userInst, streaks, streakInst,
          companies, companySeq, contacts, contactSeq,
          applications, appSeq, appInst, outreach, outreachSeq,
          goals, goalSeq, notifications, notifSeq, userQuests, questSeq,
          cvAnalyses, cvSeq, onboarding, onbSeq>>

\* the result of a call, as the caller sees it
Ret(op, res) == [op |-> op, res |-> res, arg |-> 0, slot |-> "", str |-> <<>>]
RetArg(op, res, arg) == [op |-> op, res |-> res, arg |-> arg, slot |-> "", str |-> <<>>]
RetStr(op, res, str) == [op |-> op, res |-> res, arg |-> 0, slot |-> "", str |-> str]
RetSlot(op, res, slot, arg) == [op |-> op, res |-> res, arg |-> arg, slot |-> slot, str |-> <<>>]

\* a table with row r added under id i / with the rows of ids S removed
Insert(table, i, r) == [j \in DOMAIN table \cup {i} |-> IF j = i THEN r ELSE table[j]]
Remove(table, S) == [j \in DOMAIN table \ S |-> table[j]]
EmptyTable == [j \in {} |-> NULL]

\* Python truthiness of an optional string / of an optional ISO date string
Truthy(x) == x # NULL /\ x # EMPTY
DateTruthy(d) == d # NoDate /\ d # EmptyDate
DateArgs == {NoDate, EmptyDate} \cup Days

\* ---------------------------------------------------------------- the store
\* schema.sql declares the foreign keys ON DELETE CASCADE (db.py turns their
\* enforcement on).  A DELETE of the users U, companies C, contacts K,
\* applications A and outreach rows O removes these and every row that
\* references a removed row.  An optional reference that is NULL is id 0.
CompaniesGone(U, C) ==
    C \cup {c \in DOMAIN companies : companies[c].user_id \in U}
\* a variant in which the contacts of a removed company stay
ContactsGone_Kept(U, C, K) == K
ContactsGone(U, C, K) ==
    K \cup {k \in DOMAIN contacts : contacts[k].company_id \in CompaniesGone(U, C)}
AppsGone(U, C, A) ==
    A \cup {a \in DOMAIN applications :
               \/ applications[a].user_id \in U
               \/ applications[a].company_id \in CompaniesGone(U, C)}
OutreachGone(U, C, K, A, O) ==
    O \cup {o \in DOMAIN outreach :
               \/ outreach[o].user_id \in U
               \/ outreach[o].contact_id \in ContactsGone(U, C, K)
               \/ outreach[o].application_id \in AppsGone(U, C, A)
               \/ outreach[o].company_id \in CompaniesGone(U, C)}
OwnedBy(table, U) == {i \in DOMAIN table : table[i].user_id \in U}

CascadeDelete(U, C, K, A, O) ==
    /\ users' = Remove(users, U)
    /\ streaks' = Remove(streaks, U)
    /\ companies' = Remove(companies, CompaniesGone(U, C))
    /\ contacts' = Remove(contacts, ContactsGone(U, C, K))
    /\ applications' = Remove(applications, AppsGone(U, C, A))
    /\ outreach' = Remove(outreach, OutreachGone(U, C, K, A, O))
    /\ goals' = Remove(goals, OwnedBy(goals, U))
    /\ notifications' = Remove(notifications, OwnedBy(notifications, U))
    /\ userQuests' = Remove(userQuests, OwnedBy(userQuests, U))
    /\ onboarding' = Remove(onboarding, OwnedBy(onboarding, U))
    /\ cvAnalyses' = Remove(cvAnalyses,
           OwnedBy(cvAnalyses, U) \cup
           {v \in DOMAIN cvAnalyses : cvAnalyses[v].application_id \in AppsGone(U, C, A)})

\* ------------------------------------------------------------------ strings
NL == "\n"
Whitespace == {" ", NL}
UpperLetters == {"A", "B", "X"}
LowerLetters == {"a", "b", "i", "l", "o", "x"}
Digits == {"1"}
\* an uppercase letter outside ASCII, and its lowercase letter
OtherUpperLetters == {"É"}
ToLower == [c \in UpperLetters \cup OtherUpperLetters |->
              CASE c = "A" -> "a" [] c = "B" -> "b" [] c = "X" -> "x" [] c = "É" -> "é"]

\* str.lower(): every uppercase letter is folded
Lower(str) ==
    [k \in DOMAIN str |-> IF str[k] \in UpperLetters \cup OtherUpperLetters
                          THEN ToLower[str[k]] ELSE str[k]]

\* the key SQLite compares under COLLATE NOCASE: only the 26 uppercase
\* letters of ASCII are folded
NoCase(str) ==
    [k \in DOMAIN str |-> IF str[k] \in UpperLetters THEN ToLower[str[k]] ELSE str[k]]

\* str.strip()
RECURSIVE Strip(_)
Strip(str) ==
    IF str = <<>> THEN str
    ELSE IF Head(str) \in Whitespace THEN Strip(Tail(str))
    ELSE IF str[Len(str)] \in Whitespace THEN Strip(SubSeq(str, 1, Len(str) - 1))
    ELSE str

Rep(c, n) == [k \in 1..n |-> c]

\* -------------------------------------------------------------------- clock
\* date.today() moves forward between calls
NextDay ==
    /\ today < MaxDay
    /\ today' = today + 1
    /\ last' = Ret("next_day", "ok")
    /\ UNCHANGED <<tables, seqVars, instVars>>

\* -------------------------------------------------------------- Application
VALID_STATUSES == {"Planned", "Applied", "Interview", "Offer", "Rejected"}
AppStatusArgs == VALID_STATUSES \cup {"InvalidStatus"}

validate_status(status) == status \in VALID_STATUSES

AppObject(i) == [id |-> i, status |-> applications[i].status,
                 applied_date |-> applications[i].applied_date]

\* Application.create: the row it inserts (status valid)
AppNewRow(u, c, status, applied_date) ==
    [user_id |-> u, company_id |-> c, status |-> status,
     applied_date |-> IF status = "Applied" /\ ~DateTruthy(applied_date)
                      THEN today ELSE applied_date]

\* the INSERT passes the foreign keys of table applications
AppInsertAccepted(u, c) == u \in DOMAIN users /\ c \in DOMAIN companies

\* Application.validate_job_title
validate_job_title(job_title) == job_title # <<>> /\ Len(Strip(job_title)) >= 2

AppCreateError(u, c, job_title, status) ==
    IF ~validate_job_title(job_title) THEN "Job title must be at least 2 characters long"
    ELSE IF ~validate_status(status) THEN "Invalid status"
    ELSE IF ~AppInsertAccepted(u, c) THEN "Failed to create application"
    ELSE ""

AppCreate(u, c, job_title, status, applied_date) ==
    /\ appSeq < MaxApps
    /\ IF AppCreateError(u, c, job_title, status) # ""
       THEN /\ last' = RetStr("app_create", AppCreateError(u, c, job_title, status),
                              <<u, c, job_title, status>>)
            /\ UNCHANGED <<applications, appSeq>>
       ELSE /\ applications' = Insert(applications, appSeq + 1,
                                      AppNewRow(u, c, status, applied_date))
            /\ appSeq' = appSeq + 1
            /\ last' = [RetStr("app_create", "ok", <<u, c, job_title, status>>)
                           EXCEPT !.arg = appSeq + 1]
    /\ UNCHANGED <<today, users, streaks, companies, contacts, outreach, goals,
                   notifications, userQuests, cvAnalyses, onboarding>>
    /\ UNCHANGED <<userSeq, companySeq, contactSeq, outreachSeq, goalSeq,
                   notifSeq, questSeq, cvSeq, onbSeq, instVars>>

\* Application.find_by_id, the object kept by the caller in slot s
AppFind(s, i) ==
    /\ i \in 1..appSeq
    /\ appInst' = [appInst EXCEPT ![s] =
                     IF i \in DOMAIN applications THEN AppObject(i) ELSE NoInst]
    /\ last' = RetSlot("app_find", IF i \in DOMAIN applications THEN "ok" ELSE "None", s, i)
    /\ UNCHANGED <<today, tables, seqVars, userInst, streakInst>>

\* Application.update: whether applied_date is in the SET list, and the value
\* written ("self" is the object; the rightmost assignment of a column wins)
AppAutoDate(self, status) ==
    Truthy(status) /\ status = "Applied" /\ ~DateTruthy(self.applied_date)
AppDateInSet(self, status, applied_date) ==
    applied_date # NoDate \/ AppAutoDate(self, status)
AppDateWritten(self, status, applied_date) ==
    IF applied_date # NoDate THEN applied_date ELSE today

\* Application.update(status=..., applied_date=...) on the object in slot s
AppUpdateCall(op, s, status, applied_date) ==
    LET self == appInst[s]
        inSet == AppDateInSet(self, status, applied_date)
        written == AppDateWritten(self, status, applied_date)
    IN
    /\ self # NoInst
    /\ IF Truthy(status) /\ ~validate_status(status)
       THEN /\ last' = RetSlot(op, "ValueError", s, applied_date)
            /\ UNCHANGED <<applications, appInst>>
       ELSE IF ~Truthy(status) /\ applied_date = NoDate
       THEN /\ last' = RetSlot(op, "False", s, applied_date)
            /\ UNCHANGED <<applications, appInst>>
       ELSE /\ appInst' = [appInst EXCEPT ![s] =
                 [@ EXCEPT !.status = IF Truthy(status) THEN status ELSE @,
                           !.applied_date = IF inSet THEN written ELSE @]]
            /\ applications' =
                 IF self.id \in DOMAIN applications
                 THEN [applications EXCEPT ![self.id] =
                         [@ EXCEPT
                            !.status = IF Truthy(status) THEN status ELSE @,
                            !.applied_date = IF inSet THEN written ELSE @]]
                 ELSE applications
            /\ last' = RetSlot(op, "True", s, applied_date)
    /\ UNCHANGED <<today, users, streaks, companies, contacts, outreach, goals,
                   notifications, userQuests, cvAnalyses, onboarding>>
    /\ UNCHANGED <<seqVars, userInst, streakInst>>

AppUpdate(s, status, applied_date) ==
    AppUpdateCall("app_update", s, status, applied_date)

\* Application.update_status(new_status)
AppUpdateStatus(s, new_status) ==
    AppUpdateCall("app_update_status", s, new_status, NoDate)

\* Application.delete on the object in slot s
AppDelete(s) ==
    /\ appInst[s] # NoInst
    /\ CascadeDelete({}, {}, {}, {appInst[s].id} \cap DOMAIN applications, {})
    /\ last' = RetArg("app_delete",
                      IF appInst[s].id \in DOMAIN applications THEN "True" ELSE "False",
                      appInst[s].id)
    /\ UNCHANGED <<today, seqVars, instVars>>

\* -------------------------------------------------------------- JSON fields
\* The Python values given to a JSON field: None, a list of strings, or a
\* dict given as its <<key, value>> pairs in insertion order, the values
\* being booleans.
PyNone == [type |-> "None", items |-> <<>>]
PyList(items) == [type |-> "list", items |-> items]
PyDict(items) == [type |-> "dict", items |-> items]

\* bool(data): None, [] and {} are false
PyTruthy(data) == data.type # "None" /\ data.items # <<>>

\* the value of a TEXT column: NULL or a text, here a sequence of tokens
SqlNull == [null |-> TRUE, text |-> <<>>]
SqlText(t) == [null |-> FALSE, text |-> t]

\* json.dumps: "[" item "," item "]", "{" key ":" value "," key ":" value "}"
dumps(data) ==
    LET n == Len(data.items) IN
    IF data.type = "None" THEN <<"null">>
    ELSE IF data.type = "list"
    THEN IF n = 0 THEN <<"[", "]">>
         ELSE [k \in 1..(2 * n + 1) |->
                 IF k = 1 THEN "[" ELSE IF k = 2 * n + 1 THEN "]"
                 ELSE IF k % 2 = 0 THEN data.items[k \div 2] ELSE ","]
    ELSE IF n = 0 THEN <<"{", "}">>
         ELSE [k \in 1..(4 * n + 1) |->
                 IF k = 1 THEN "{" ELSE IF k = 4 * n + 1 THEN "}"
                 ELSE IF k % 4 = 2 THEN data.items[(k + 2) \div 4][1]
                 ELSE IF k % 4 = 3 THEN ":"
                 ELSE IF k % 4 = 0
                 THEN (IF data.items[k \div 4][2] THEN "true" ELSE "false")
                 ELSE ","]

\* json.loads of a text json.dumps has written
loads(t) ==
    IF t = <<"null">> THEN PyNone
    ELSE IF t[1] = "["
    THEN PyList([k \in 1..((Len(t) - 1) \div 2) |-> t[2 * k]])
    ELSE PyDict([k \in 1..((Len(t) - 1) \div 4) |->
                   <<t[4 * k - 2], t[4 * k] = "true">>])

\* json_encode(data): json.dumps(data) if data else None
json_encode(data) == IF PyTruthy(data) THEN SqlText(dumps(data)) ELSE SqlNull

\* json_decode(json_str): json.loads(json_str) if json_str else None
json_decode(json_str) ==
    IF json_str.null \/ json_str.text = <<>> THEN PyNone ELSE loads(json_str.text)

\* --------------------------------------------------------------------- User
\* the pattern of validate_email, matched by re.match: "$" also matches just
\* before a newline that ends the string
EmailLocalChars == UpperLetters \cup LowerLetters \cup Digits \cup {".", "_", "%", "+", "-"}
EmailDomainChars == UpperLetters \cup LowerLetters \cup Digits \cup {".", "-"}
EmailTldChars == UpperLetters \cup LowerLetters

EmailPatternMatches(t) ==
    \E at \in 1..Len(t), dot \in 1..Len(t) :
        /\ t[at] = "@" /\ t[dot] = "." /\ at < dot
        /\ at > 1 /\ \A k \in 1..(at - 1) : t[k] \in EmailLocalChars
        /\ dot > at + 1 /\ \A k \in (at + 1)..(dot - 1) : t[k] \in EmailDomainChars
        /\ Len(t) - dot >= 2 /\ \A k \in (dot + 1)..Len(t) : t[k] \in EmailTldChars

validate_email(email) ==
    /\ email # <<>>
    /\ \/ EmailPatternMatches(email)
       \/ /\ email[Len(email)] = NL
          /\ EmailPatternMatches(SubSeq(email, 1, Len(email) - 1))

\* password rules, in the order validate_password applies them; "" is success
SpecialChars == {"!", "@", "#", "$", "%", "^", "&", "*", "(", ")", ",", ".", "?",
                 "\"", ":", "{", "}", "|", "<", ">"}
MsgRequired == "Password is required"
MsgLength == "Password must be at least 8 characters long"
MsgUpper == "Password must contain at least one uppercase letter"
MsgLowerCase == "Password must contain at least one lowercase letter"
MsgDigit == "Password must contain at least one number"
MsgSpecial == "Password must contain at least one special character"
MinPasswordLen == 8

Contains(str, chars) == \E k \in DOMAIN str : str[k] \in chars

\* a variant that takes 8 characters for too short
validate_password_Over8(password) ==
    IF password = <<>> THEN MsgRequired
    ELSE IF Len(password) <= MinPasswordLen THEN MsgLength
    ELSE IF ~Contains(password, UpperLetters) THEN MsgUpper
    ELSE IF ~Contains(password, LowerLetters) THEN MsgLowerCase
    ELSE IF ~Contains(password, Digits) THEN MsgDigit
    ELSE IF ~Contains(password, SpecialChars) THEN MsgSpecial
    ELSE ""

validate_password(password) ==
    IF password = <<>> THEN MsgRequired
    ELSE IF Len(password) < MinPasswordLen THEN MsgLength
    ELSE IF ~Contains(password, {"A", "B", "C", "D", "E", "F", "G", "H", "I", "J",
                                 "K", "L", "M", "N", "O", "P", "Q", "R", "S", "T",
                                 "U", "V", "W", "X", "Y", "Z"}) THEN MsgUpper
    ELSE IF ~Contains(password, {"a", "b", "c", "d", "e", "f", "g", "h", "i", "j",
                                 "k", "l", "m", "n", "o", "p", "q", "r", "s", "t",
                                 "u", "v", "w", "x", "y", "z"}) THEN MsgLowerCase
    ELSE IF ~Contains(password, {"0", "1", "2", "3", "4", "5", "6", "7", "8", "9"})
         THEN MsgDigit
    ELSE IF ~Contains(password, SpecialChars) THEN MsgSpecial
    ELSE ""

\* hashlib.sha256(password).hexdigest(): one-to-one on the passwords modelled
hash_password(password) == <<"sha256", password>>
verify_password(password, password_hash) == hash_password(password) = password_hash

\* SELECT * FROM users WHERE email = ? COLLATE NOCASE, with email.strip():
\* the ids of the matching rows
EmailMatches(email) ==
    {i \in DOMAIN users : NoCase(users[i].email) = NoCase(Strip(email))}
\* a variant that compares the stored email as it is
find_by_email_CaseSensitive(email) ==
    IF \E i \in DOMAIN users : users[i].email = Strip(email)
    THEN CHOOSE i \in DOMAIN users : users[i].email = Strip(email)
    ELSE 0

\* User.find_by_email: the id of the row returned (0 for None)
find_by_email(email) ==
    IF EmailMatches(email) = {} THEN 0
    ELSE CHOOSE i \in EmailMatches(email) : \A j \in EmailMatches(email) : i <= j

\* users.email is UNIQUE: the INSERT / UPDATE of row `self` is accepted
UsersEmailUnique(self, email) ==
    \A i \in DOMAIN users \ {self} : Lower(users[i].email) # Lower(email)

\* the trigger of schema.sql that inserts the streak of a new user
NewStreakRow == [current_streak |-> 0, longest_streak |-> 0,
                 last_activity_date |-> NoDate, total_points |-> 0]

\* the columns of a new users row that the INSERT of User.create leaves to
\* their defaults
NewUserDefaults == [is_active |-> TRUE, last_login |-> NoDate,
                    notification_preferences |-> SqlNull]

NameTooShort(name) == name = <<>> \/ Len(Strip(name)) < 2

UserObject(i) == [id |-> i, email |-> users[i].email,
                  password_hash |-> users[i].password_hash, name |-> users[i].name,
                  is_active |-> users[i].is_active,
                  last_login |-> users[i].last_login,
                  notification_preferences |->
                      json_decode(users[i].notification_preferences)]

\* the first check of User.create that fails, "" when none does
UserCreateError(email, password, name) ==
    IF ~validate_email(email) THEN "Invalid email format"
    ELSE IF validate_password(password) # "" THEN validate_password(password)
    ELSE IF NameTooShort(name) THEN "Name must be at least 2 characters long"
    ELSE IF find_by_email(email) # 0 THEN "Email already registered"
    ELSE IF ~UsersEmailUnique(0, Strip(Lower(email))) THEN "Failed to create user"
    ELSE ""

\* a variant in which no streak is inserted with the user
UserCreate_NoStreak(email, password, name) ==
    /\ UserCreateError(email, password, name) = "" => userSeq < MaxUsers
    /\ IF UserCreateError(email, password, name) # ""
       THEN /\ last' = RetStr("user_create", UserCreateError(email, password, name),
                              <<email, password>>)
            /\ UNCHANGED <<users, userSeq, streaks>>
       ELSE /\ users' = Insert(users, userSeq + 1,
                               [email |-> Strip(Lower(email)),
                                password_hash |-> hash_password(password),
                                name |-> Strip(name)] @@ NewUserDefaults)
            /\ streaks' = streaks
            /\ userSeq' = userSeq + 1
            /\ last' = RetStr("user_create", "ok", <<email, password>>)
    /\ UNCHANGED <<today, companies, contacts, applications, outreach, goals,
                   notifications, userQuests, cvAnalyses, onboarding>>
    /\ UNCHANGED <<companySeq, contactSeq, appSeq, outreachSeq, goalSeq,
                   notifSeq, questSeq, cvSeq, onbSeq, instVars>>

\* User.create; the trigger of schema.sql inserts the streak of the new user
UserCreate(email, password, name) ==
    /\ UserCreateError(email, password, name) = "" => userSeq < MaxUsers
    /\ IF UserCreateError(email, password, name) # ""
       THEN /\ last' = RetStr("user_create", UserCreateError(email, password, name),
                              <<email, password>>)
            /\ UNCHANGED <<users, userSeq, streaks>>
       ELSE /\ users' = Insert(users, userSeq + 1,
                               [email |-> Strip(Lower(email)),
                                password_hash |-> hash_password(password),
                                name |-> Strip(name)] @@ NewUserDefaults)
            /\ streaks' = Insert(streaks, userSeq + 1, NewStreakRow)
            /\ userSeq' = userSeq + 1
            /\ last' = RetStr("user_create", "ok", <<email, password>>)
    /\ UNCHANGED <<today, companies, contacts, applications, outreach, goals,
                   notifications, userQuests, cvAnalyses, onboarding>>
    /\ UNCHANGED <<companySeq, contactSeq, appSeq, outreachSeq, goalSeq,
                   notifSeq, questSeq, cvSeq, onbSeq, instVars>>

\* User.find_by_id, the object kept by the caller in slot s
UserFind(s, i) ==
    /\ i \in DOMAIN users
    /\ userInst' = [userInst EXCEPT ![s] = UserObject(i)]
    /\ last' = RetArg("user_find", "ok", i)
    /\ UNCHANGED <<today, tables, seqVars, streakInst, appInst>>

\* User.update_profile(name=..., email=...) on the object in slot s; an
\* argument that is None or "" is <<>>
UserUpdateError(self, name, email) ==
    IF name # <<>> /\ Len(Strip(name)) < 2 THEN "Name must be at least 2 characters long"
    ELSE IF email # <<>> /\ ~validate_email(email) THEN "Invalid email format"
    ELSE IF email # <<>> /\ find_by_email(email) \notin {0, self.id}
         THEN "Email already registered"
    ELSE ""

UserUpdateProfile(s, name, email) ==
    LET self == userInst[s]
        err == UserUpdateError(self, name, email)
        newName == IF name # <<>> THEN Strip(name) ELSE self.name
        newEmail == Strip(Lower(email))
    IN
    /\ self # NoInst
    /\ IF err = "Name must be at least 2 characters long"
       THEN /\ last' = RetArg("user_update_profile", err, self.id)
            /\ UNCHANGED <<users, userInst>>
       ELSE IF err # ""
       THEN \* raised after self.name was assigned
            /\ last' = RetArg("user_update_profile", err, self.id)
            /\ userInst' = [userInst EXCEPT ![s].name = newName]
            /\ UNCHANGED users
       ELSE IF name = <<>> /\ email = <<>>
       THEN /\ last' = RetArg("user_update_profile", "False", self.id)
            /\ UNCHANGED <<users, userInst>>
       ELSE /\ userInst' = [userInst EXCEPT
                              ![s].name = newName,
                              ![s].email = IF email # <<>> THEN newEmail ELSE @]
            /\ IF self.id \notin DOMAIN users
               THEN /\ users' = users
                    /\ last' = RetArg("user_update_profile", "True", self.id)
               ELSE IF email # <<>> /\ ~UsersEmailUnique(self.id, newEmail)
               THEN /\ users' = users
                    /\ last' = RetArg("user_update_profile", "False", self.id)
               ELSE /\ users' = [users EXCEPT
                                   ![self.id].name = IF name # <<>> THEN newName ELSE @,
                                   ![self.id].email = IF email # <<>> THEN newEmail ELSE @]
                    /\ last' = RetArg("user_update_profile", "True", self.id)
    /\ UNCHANGED <<today, streaks, companies, contacts, applications, outreach, goals,
                   notifications, userQuests, cvAnalyses, onboarding>>
    /\ UNCHANGED <<seqVars, streakInst, appInst>>

\* User.change_password(old_password, new_password) on the object in slot s
UserChangePassword(s, old_password, new_password) ==
    LET self == userInst[s] IN
    /\ self # NoInst
    /\ IF ~verify_password(old_password, self.password_hash)
       THEN /\ last' = RetStr("user_change_password", "Current password is incorrect",
                              <<new_password>>)
            /\ UNCHANGED <<users, userInst>>
       ELSE IF validate_password(new_password) # ""
       THEN /\ last' = RetStr("user_change_password", validate_password(new_password),
                              <<new_password>>)
            /\ UNCHANGED <<users, userInst>>
       ELSE /\ users' = IF self.id \in DOMAIN users
                        THEN [users EXCEPT ![self.id].password_hash =
                                             hash_password(new_password)]
                        ELSE users
            /\ userInst' = [userInst EXCEPT ![s].password_hash =
                                              hash_password(new_password)]
            /\ last' = [RetStr("user_change_password", "True",
                               <<new_password, old_password>>)
                           EXCEPT !.arg = self.id]
    /\ UNCHANGED <<today, streaks, companies, contacts, applications, outreach, goals,
                   notifications, userQuests, cvAnalyses, onboarding>>
    /\ UNCHANGED <<seqVars, streakInst, appInst>>

\* DELETE FROM users WHERE id = ?: the rows the statement names
UserDeleteTargets(id) == {id} \cap DOMAIN users

\* User.delete on the object in slot s
UserDelete(s) ==
    /\ userInst[s] # NoInst
    /\ CascadeDelete(UserDeleteTargets(userInst[s].id), {}, {}, {}, {})
    /\ last' = RetArg("user_delete",
                      IF UserDeleteTargets(userInst[s].id) # {} THEN "True" ELSE "False",
                      userInst[s].id)
    /\ UNCHANGED <<today, seqVars, instVars>>

\* ------------------------------------------------------------------ Company
\* Company.validate_name / Contact.validate_name
validate_name(name) == name # <<>> /\ Len(Strip(name)) >= 2

\* Company.find_by_name: the ids of the user's companies of that name (NOCASE)
CompanyNameMatches(u, name) ==
    {c \in DOMAIN companies :
        companies[c].user_id = u /\ NoCase(companies[c].name) = NoCase(Strip(name))}

CompanyCreateError(u, name) ==
    IF ~validate_name(name) THEN "Company name must be at least 2 characters long"
    ELSE IF CompanyNameMatches(u, name) # {} THEN "Company already exists in your list"
    ELSE IF u \notin DOMAIN users THEN "Failed to create company"
    ELSE ""

CompanyCreate(u, name) ==
    /\ companySeq < MaxCompanies
    /\ IF CompanyCreateError(u, name) # ""
       THEN /\ last' = Ret("company_create", CompanyCreateError(u, name))
            /\ UNCHANGED <<companies, companySeq>>
       ELSE /\ companies' = Insert(companies, companySeq + 1,
                                   [user_id |-> u, name |-> Strip(name),
                                    website |-> NULL])
            /\ companySeq' = companySeq + 1
            /\ last' = RetArg("company_create", "ok", companySeq + 1)
    /\ UNCHANGED <<today, users, streaks, contacts, applications, outreach, goals,
                   notifications, userQuests, cvAnalyses, onboarding>>
    /\ UNCHANGED <<userSeq, contactSeq, appSeq, outreachSeq, goalSeq,
                   notifSeq, questSeq, cvSeq, onbSeq, instVars>>

\* DELETE FROM companies WHERE id = ?: the rows the statement names
CompanyDeleteTargets(id) == {id} \cap DOMAIN companies

\* Company.delete on a Company object of id i
CompanyDelete(i) ==
    /\ i \in 1..companySeq
    /\ CascadeDelete({}, CompanyDeleteTargets(i), {}, {}, {})
    /\ last' = RetArg("company_delete",
                      IF CompanyDeleteTargets(i) # {} THEN "True" ELSE "False", i)
    /\ UNCHANGED <<today, seqVars, instVars>>

\* ------------------------------------------------------------------ Contact
\* Contact.find_by_email: the contacts of the company with that email (NOCASE)
ContactEmailMatches(c, email) ==
    IF email = <<>> THEN {}
    ELSE {k \in DOMAIN contacts :
            contacts[k].company_id = c /\ NoCase(contacts[k].email) = NoCase(Strip(email))}

\* contacts (company_id, email) is UNIQUE, rows without an email apart: the
\* INSERT / UPDATE of row `self` with this email is accepted
ContactsEmailUnique(self, c, email) ==
    \/ email = <<>>
    \/ \A k \in DOMAIN contacts \ {self} :
          ~(contacts[k].company_id = c /\ contacts[k].email = email)

ContactCreateError(c, name, email) ==
    IF ~validate_name(name) THEN "Contact name must be at least 2 characters long"
    ELSE IF email # <<>> /\ ~validate_email(email) THEN "Invalid email format"
    ELSE IF ContactEmailMatches(c, email) # {} THEN "Contact already exists at this company"
    ELSE IF c \notin DOMAIN companies \/ ~ContactsEmailUnique(0, c, Lower(email))
    THEN "Failed to create contact"
    ELSE ""

ContactCreate(c, name, email) ==
    /\ contactSeq < MaxContacts
    /\ IF ContactCreateError(c, name, email) # ""
       THEN /\ last' = [RetStr("contact_create", ContactCreateError(c, name, email),
                               <<email>>) EXCEPT !.arg = c]
            /\ UNCHANGED <<contacts, contactSeq>>
       ELSE /\ contacts' = Insert(contacts, contactSeq + 1,
                                  [company_id |-> c, name |-> Strip(name),
                                   email |-> Lower(email)])
            /\ contactSeq' = contactSeq + 1
            /\ last' = [RetStr("contact_create", "ok", <<email>>) EXCEPT !.arg = c]
    /\ UNCHANGED <<today, users, streaks, companies, applications, outreach, goals,
                   notifications, userQuests, cvAnalyses, onboarding>>
    /\ UNCHANGED <<userSeq, companySeq, appSeq, outreachSeq, goalSeq,
                   notifSeq, questSeq, cvSeq, onbSeq, instVars>>

\* DELETE FROM contacts WHERE id = ?: the rows the statement names
ContactDeleteTargets(id) == {id} \cap DOMAIN contacts

\* Contact.delete on a Contact object of id i
ContactDelete(i) ==
    /\ i \in 1..contactSeq
    /\ CascadeDelete({}, {}, ContactDeleteTargets(i), {}, {})
    /\ last' = RetArg("contact_delete",
                      IF ContactDeleteTargets(i) # {} THEN "True" ELSE "False", i)
    /\ UNCHANGED <<today, seqVars, instVars>>

\* ----------------------------------------------------------------- Outreach
VALID_CHANNELS == {"email", "linkedin"}
OUTREACH_STATUSES == {"Sent", "Responded", "No Response"}
MinMessageLen == 10

\* a variant that only asks for some link
validate_exactly_one_link_AtLeastOne(application_id, company_id) ==
    application_id # 0 \/ company_id # 0

\* Outreach.validate_exactly_one_link; a reference that is None is 0
validate_exactly_one_link(application_id, company_id) ==
    \/ (application_id # 0 /\ company_id = 0)
    \/ (application_id = 0 /\ company_id # 0)

\* the INSERT passes the foreign keys of table outreach_activities and its
\* CHECK that exactly one of application_id, company_id is not NULL
OutreachInsertAccepted(u, k, a, c) ==
    /\ (a # 0 /\ c = 0) \/ (a = 0 /\ c # 0)
    /\ u \in DOMAIN users
    /\ k \in DOMAIN contacts
    /\ a # 0 => a \in DOMAIN applications
    /\ c # 0 => c \in DOMAIN companies

OutreachCreateError(u, k, channel, message, a, c, status) ==
    IF ~validate_exactly_one_link(a, c)
    THEN "Must provide exactly ONE of application_id or company_id"
    ELSE IF channel \notin VALID_CHANNELS THEN "Invalid channel"
    ELSE IF status \notin OUTREACH_STATUSES THEN "Invalid status"
    ELSE IF message = <<>> \/ Len(Strip(message)) < MinMessageLen
         THEN "Message template must be at least 10 characters long"
    ELSE IF ~OutreachInsertAccepted(u, k, a, c) THEN "Failed to create outreach activity"
    ELSE ""

OutreachCreate(u, k, channel, message, a, c, follow_up_date, status) ==
    /\ outreachSeq < MaxOutreach
    /\ IF OutreachCreateError(u, k, channel, message, a, c, status) # ""
       THEN /\ last' = RetStr("outreach_create",
                              OutreachCreateError(u, k, channel, message, a, c, status),
                              <<a, c>>)
            /\ UNCHANGED <<outreach, outreachSeq>>
       ELSE /\ outreach' = Insert(outreach, outreachSeq + 1,
                                  [user_id |-> u, contact_id |-> k,
                                   application_id |-> a, company_id |-> c,
                                   status |-> status,
                                   follow_up_date |-> follow_up_date])
            /\ outreachSeq' = outreachSeq + 1
            /\ last' = RetStr("outreach_create", "ok", <<a, c>>)
    /\ UNCHANGED <<today, users, streaks, companies, contacts, applications, goals,
                   notifications, userQuests, cvAnalyses, onboarding>>
    /\ UNCHANGED <<userSeq, companySeq, contactSeq, appSeq, goalSeq,
                   notifSeq, questSeq, cvSeq, onbSeq, instVars>>

\* Outreach.update(follow_up_date=..., status=...) on an Outreach object of id i
OutreachUpdate(i, follow_up_date, status) ==
    /\ i \in 1..outreachSeq
    /\ IF Truthy(status) /\ status \notin OUTREACH_STATUSES
       THEN /\ last' = RetArg("outreach_update", "Invalid status", i)
            /\ UNCHANGED outreach
       ELSE IF follow_up_date = NoDate /\ ~Truthy(status)
       THEN /\ last' = RetArg("outreach_update", "False", i)
            /\ UNCHANGED outreach
       ELSE /\ outreach' =
                 IF i \in DOMAIN outreach
                 THEN [outreach EXCEPT
                         ![i].follow_up_date = IF follow_up_date # NoDate
                                               THEN follow_up_date ELSE @,
                         ![i].status = IF Truthy(status) THEN status ELSE @]
                 ELSE outreach
            /\ last' = RetArg("outreach_update", "True", i)
    /\ UNCHANGED <<today, users, streaks, companies, contacts, applications, goals,
                   notifications, userQuests, cvAnalyses, onboarding>>
    /\ UNCHANGED <<seqVars, instVars>>

\* Outreach.delete on an Outreach object of id i
OutreachDelete(i) ==
    /\ i \in 1..outreachSeq
    /\ CascadeDelete({}, {}, {}, {}, {i} \cap DOMAIN outreach)
    /\ last' = RetArg("outreach_delete",
                      IF i \in DOMAIN outreach THEN "True" ELSE "False", i)
    /\ UNCHANGED <<today, seqVars, instVars>>

\* ------------------------------------------------------------------- Streak
Max(a, b) == IF a >= b THEN a ELSE b

\* Streak.__init__ over the row of user u
StreakObject(u) ==
    [user_id |-> u,
     current_streak |-> streaks[u].current_streak,
     longest_streak |-> streaks[u].longest_streak,
     last_activity_date |-> streaks[u].last_activity_date,
     total_points |-> streaks[u].total_points]

\* Streak.find_by_user_id(u), the result kept in slot s
StreakFind(s, u) ==
    /\ u \in 1..userSeq
    /\ streakInst' = [streakInst EXCEPT ![s] =
                        IF u \in DOMAIN streaks THEN StreakObject(u) ELSE NoInst]
    /\ last' = RetSlot("streak_find", IF u \in DOMAIN streaks THEN "ok" ELSE "None", s, u)
    /\ UNCHANGED <<today, tables, seqVars, userInst, appInst>>

\* Streak.get_or_create(u), the result kept in slot s: the fallback INSERT
\* passes only when the user exists
StreakGetOrCreate(s, u) ==
    /\ u \in 1..userSeq
    /\ streaks' = IF u \notin DOMAIN streaks /\ u \in DOMAIN users
                  THEN Insert(streaks, u, NewStreakRow) ELSE streaks
    /\ streakInst' = [streakInst EXCEPT ![s] =
                        IF u \in DOMAIN streaks THEN StreakObject(u)
                        ELSE IF u \in DOMAIN users
                        THEN [user_id |-> u] @@ NewStreakRow
                        ELSE NoInst]
    /\ last' = RetSlot("streak_get_or_create",
                       IF u \in DOMAIN users THEN "ok" ELSE "None", s, u)
    /\ UNCHANGED <<today, users, companies, contacts, applications, outreach, goals,
                   notifications, userQuests, cvAnalyses, onboarding>>
    /\ UNCHANGED <<seqVars, userInst, appInst>>

\* update_activity: the branch taken, from the object's last_activity_date
days_diff(self) == today - self.last_activity_date

\* a variant that takes a one-day gap for a broken streak
new_current_streak_NoIncrement(self) ==
    IF self.last_activity_date = NoDate THEN 1
    ELSE IF days_diff(self) = 0 THEN self.current_streak
    ELSE 1
new_current_streak(self) ==
    IF self.last_activity_date = NoDate THEN 1
    ELSE IF days_diff(self) = 0 THEN self.current_streak
    ELSE IF days_diff(self) = 1 THEN self.current_streak + 1
    ELSE 1

\* a variant that keeps the object's longest_streak when the streak grows
new_longest_streak_NoMax(self) ==
    IF self.last_activity_date = NoDate THEN Max(1, self.longest_streak)
    ELSE self.longest_streak
new_longest_streak(self) ==
    IF self.last_activity_date = NoDate THEN Max(1, self.longest_streak)
    ELSE IF days_diff(self) = 0 THEN self.longest_streak
    ELSE IF days_diff(self) = 1 THEN Max(new_current_streak(self), self.longest_streak)
    ELSE self.longest_streak

\* Streak.update_activity(points) on the object in slot s
UpdateActivity(s, points) ==
    LET self == streakInst[s] IN
    /\ self # NoInst
    /\ self.total_points + points <= MaxPoints
    /\ self.user_id \in DOMAIN streaks =>
           streaks[self.user_id].total_points + points <= MaxPoints
    /\ streaks' = IF self.user_id \in DOMAIN streaks
                  THEN [streaks EXCEPT
                          ![self.user_id].current_streak = new_current_streak(self),
                          ![self.user_id].longest_streak = new_longest_streak(self),
                          ![self.user_id].last_activity_date = today,
                          ![self.user_id].total_points = @ + points]
                  ELSE streaks
    /\ streakInst' = [streakInst EXCEPT
                        ![s].current_streak = new_current_streak(self),
                        ![s].longest_streak = new_longest_streak(self),
                        ![s].last_activity_date = today,
                        ![s].total_points = @ + points]
    /\ last' = RetSlot("update_activity", "True", s, points)
    /\ UNCHANGED <<today, users, companies, contacts, applications, outreach, goals,
                   notifications, userQuests, cvAnalyses, onboarding>>
    /\ UNCHANGED <<seqVars, userInst, appInst>>

\* Streak.add_points(points) on the object in slot s
AddPoints(s, points) ==
    LET self == streakInst[s] IN
    /\ self # NoInst
    /\ self.total_points + points <= MaxPoints
    /\ self.user_id \in DOMAIN streaks =>
           streaks[self.user_id].total_points + points <= MaxPoints
    /\ streaks' = IF self.user_id \in DOMAIN streaks
                  THEN [streaks EXCEPT ![self.user_id].total_points = @ + points]
                  ELSE streaks
    /\ streakInst' = [streakInst EXCEPT ![s].total_points = @ + points]
    /\ last' = RetSlot("add_points", "True", s, points)
    /\ UNCHANGED <<today, users, companies, contacts, applications, outreach, goals,
                   notifications, userQuests, cvAnalyses, onboarding>>
    /\ UNCHANGED <<seqVars, userInst, appInst>>

\* Streak.reset_streak() on the object in slot s
ResetStreak(s) ==
    LET self == streakInst[s] IN
    /\ self # NoInst
    /\ streaks' = IF self.user_id \in DOMAIN streaks
                  THEN [streaks EXCEPT ![self.user_id].current_streak = 0]
                  ELSE streaks
    /\ streakInst' = [streakInst EXCEPT ![s].current_streak = 0]
    /\ last' = RetSlot("reset_streak", "True", s, 0)
    /\ UNCHANGED <<today, users, companies, contacts, applications, outreach, goals,
                   notifications, userQuests, cvAnalyses, onboarding>>
    /\ UNCHANGED <<seqVars, userInst, appInst>>

\* --------------------------------------------------------------------- Goal
\* the largest applications_current a goal is taken to
MaxProgress == 2

\* date.weekday() of day d: 0 is Monday; day 0 of the clock is a Saturday
weekday(d) == (d + FirstWeekday) % 7

\* Goal.get_week_start(target_date)
get_week_start(target_date) ==
    IF target_date = NoDate THEN today - weekday(today)
    ELSE target_date - weekday(target_date)

\* Goal.validate_goal_value
validate_goal_value(value) == value > 0

\* Goal.find_by_week(user_id, week_start): the matching goal ids
find_by_week(u, week_start) ==
    {g \in DOMAIN goals : goals[g].user_id = u /\ goals[g].week_start = week_start}

\* the week_start Goal.create works with
GoalWeekStart(week_start) ==
    IF week_start = NoDate THEN get_week_start(NoDate) ELSE week_start

GoalCreateError(u, applications_goal, outreach_goal, week_start) ==
    IF ~validate_goal_value(applications_goal)
    THEN "Applications goal must be a positive integer"
    ELSE IF ~validate_goal_value(outreach_goal)
    THEN "Outreach goal must be a positive integer"
    ELSE IF find_by_week(u, GoalWeekStart(week_start)) # {}
    THEN "Goal already exists"
    ELSE IF u \notin DOMAIN users THEN "Failed to create goal"
    ELSE ""

\* the store's part of Goal.create, reported under the name op
GoalCreateCall(op, u, applications_goal, outreach_goal, week_start) ==
    /\ goalSeq < MaxGoals
    /\ IF GoalCreateError(u, applications_goal, outreach_goal, week_start) # ""
       THEN /\ last' = RetArg(op, GoalCreateError(u, applications_goal, outreach_goal,
                                                  week_start), week_start)
            /\ UNCHANGED <<goals, goalSeq>>
       ELSE /\ goals' = Insert(goals, goalSeq + 1,
                               [user_id |-> u,
                                week_start |-> GoalWeekStart(week_start),
                                applications_goal |-> applications_goal,
                                applications_current |-> 0,
                                outreach_goal |-> outreach_goal])
            /\ goalSeq' = goalSeq + 1
            /\ last' = [RetArg(op, "ok", week_start) EXCEPT !.str = <<goalSeq + 1>>]
    /\ UNCHANGED <<today, users, streaks, companies, contacts, applications, outreach,
                   notifications, userQuests, cvAnalyses, onboarding>>
    /\ UNCHANGED <<userSeq, companySeq, contactSeq, appSeq, outreachSeq,
                   notifSeq, questSeq, cvSeq, onbSeq, instVars>>

\* Goal.create(user_id, applications_goal, outreach_goal, week_start)
GoalCreate(u, applications_goal, outreach_goal, week_start) ==
    GoalCreateCall("goal_create", u, applications_goal, outreach_goal, week_start)

\* Goal.get_or_create_current_week without the look-up of the current week
GoalGetOrCreateCurrentWeek_AlwaysCreate(u, applications_goal, outreach_goal) ==
    GoalCreateCall("goal_get_or_create", u, applications_goal, outreach_goal, NoDate)

\* Goal.get_or_create_current_week(user_id, applications_goal, outreach_goal);
\* the id of the goal returned is reported in last.str
GoalGetOrCreateCurrentWeek(u, applications_goal, outreach_goal) ==
    IF find_by_week(u, get_week_start(NoDate)) # {}
    THEN /\ last' = [RetArg("goal_get_or_create", "found", NoDate) EXCEPT
                        !.str = <<CHOOSE g \in find_by_week(u, get_week_start(NoDate)) :
                                    \A h \in find_by_week(u, get_week_start(NoDate)) :
                                        g <= h>>]
         /\ UNCHANGED <<today, tables, seqVars, instVars>>
    ELSE GoalCreateCall("goal_get_or_create", u, applications_goal, outreach_goal, NoDate)

\* Goal.increment_applications(count) on a Goal object of id i
GoalIncrementApplications(i, count) ==
    /\ i \in 1..goalSeq
    /\ i \in DOMAIN goals => goals[i].applications_current + count <= MaxProgress
    /\ goals' = IF i \in DOMAIN goals
                THEN [goals EXCEPT ![i].applications_current = @ + count]
                ELSE goals
    /\ last' = RetArg("goal_increment_applications", "True", i)
    /\ UNCHANGED <<today, users, streaks, companies, contacts, applications, outreach,
                   notifications, userQuests, cvAnalyses, onboarding>>
    /\ UNCHANGED <<seqVars, instVars>>

\* Goal.delete on a Goal object of id i
GoalDelete(i) ==
    /\ i \in 1..goalSeq
    /\ goals' = Remove(goals, {i})
    /\ last' = RetArg("goal_delete", IF i \in DOMAIN goals THEN "True" ELSE "False", i)
    /\ UNCHANGED <<today, users, streaks, companies, contacts, applications, outreach,
                   notifications, userQuests, cvAnalyses, onboarding>>
    /\ UNCHANGED <<seqVars, instVars>>

\* ------------------------------------------------------------- Notification
NOTIFICATION_TYPES == {"follow_up", "goal_reminder", "micro_quest", "motivation", "system"}
VALID_RELATED_TYPES == {"application", "outreach", "micro_quest", "goal", NULL}

NotificationCreateError(u, notif_type, title, message, related_type) ==
    IF notif_type \notin NOTIFICATION_TYPES THEN "Invalid notification type"
    ELSE IF Truthy(related_type) /\ related_type \notin VALID_RELATED_TYPES
    THEN "Invalid related type"
    ELSE IF title = <<>> \/ Len(Strip(title)) < 3
    THEN "Title must be at least 3 characters long"
    ELSE IF message = <<>> \/ Len(Strip(message)) < 10
    THEN "Message must be at least 10 characters long"
    ELSE IF u \notin DOMAIN users THEN "Failed to create notification"
    ELSE ""

\* Notification.create; related_id is stored as given, no reference is checked
NotificationCreate(u, notif_type, title, message, related_type, related_id) ==
    /\ notifSeq < MaxOwned
    /\ IF NotificationCreateError(u, notif_type, title, message, related_type) # ""
       THEN /\ last' = Ret("notification_create",
                           NotificationCreateError(u, notif_type, title, message,
                                                   related_type))
            /\ UNCHANGED <<notifications, notifSeq>>
       ELSE /\ notifications' = Insert(notifications, notifSeq + 1,
                                       [user_id |-> u, type |-> notif_type,
                                        related_type |-> related_type,
                                        related_id |-> related_id])
            /\ notifSeq' = notifSeq + 1
            /\ last' = RetArg("notification_create", "ok", notifSeq + 1)
    /\ UNCHANGED <<today, users, streaks, companies, contacts, applications, outreach,
                   goals, userQuests, cvAnalyses, onboarding>>
    /\ UNCHANGED <<userSeq, companySeq, contactSeq, appSeq, outreachSeq, goalSeq,
                   questSeq, cvSeq, onbSeq, instVars>>

\* ---------------------------------------------------------------- UserQuest
\* a variant that looks at the quest_id only
is_completed_AnyUser(u, quest_id) ==
    \E q \in DOMAIN userQuests : userQuests[q].quest_id = quest_id

\* UserQuest.is_completed(user_id, quest_id)
is_completed(u, quest_id) ==
    \E q \in DOMAIN userQuests :
        userQuests[q].user_id = u /\ userQuests[q].quest_id = quest_id

UserQuestCreateError(u, quest_id) ==
    IF Len(quest_id) < 2 THEN "Quest ID must be at least 2 characters long"
    ELSE IF is_completed(u, quest_id) THEN "Quest already completed by this user"
    ELSE IF u \notin DOMAIN users THEN "Failed to mark quest as completed"
    ELSE ""

UserQuestCreate(u, quest_id) ==
    /\ questSeq < MaxQuests
    /\ IF UserQuestCreateError(u, quest_id) # ""
       THEN /\ last' = [RetStr("user_quest_create", UserQuestCreateError(u, quest_id),
                               <<quest_id>>) EXCEPT !.arg = u]
            /\ UNCHANGED <<userQuests, questSeq>>
       ELSE /\ userQuests' = Insert(userQuests, questSeq + 1,
                                    [user_id |-> u, quest_id |-> quest_id])
            /\ questSeq' = questSeq + 1
            /\ last' = [RetStr("user_quest_create", "ok", <<quest_id>>) EXCEPT !.arg = u]
    /\ UNCHANGED <<today, users, streaks, companies, contacts, applications, outreach,
                   goals, notifications, cvAnalyses, onboarding>>
    /\ UNCHANGED <<userSeq, companySeq, contactSeq, appSeq, outreachSeq, goalSeq,
                   notifSeq, cvSeq, onbSeq, instVars>>

\* --------------------------------------------------------------- CVAnalysis
\* CVAnalysis.validate_ats_score
validate_ats_score(score) == 0 <= score /\ score <= 100

CVAnalysisCreateError(u, cv_filename, job_description, ats_score, a) ==
    IF ~validate_ats_score(ats_score)
    THEN "ATS score must be an integer between 0 and 100"
    ELSE IF cv_filename = <<>> \/ Len(Strip(cv_filename)) < 3
    THEN "CV filename must be at least 3 characters long"
    ELSE IF job_description = <<>> \/ Len(Strip(job_description)) < 50
    THEN "Job description must be at least 50 characters long"
    ELSE IF u \notin DOMAIN users \/ (a # 0 /\ a \notin DOMAIN applications)
    THEN "Failed to create CV analysis"
    ELSE ""

\* CVAnalysis.create(user_id, cv_filename, job_description, ats_score,
\* matched_keywords, application_id=a); a list that is None becomes []
\* before it is encoded
CVAnalysisCreateCall(u, cv_filename, job_description, ats_score, matched_keywords, a) ==
    /\ cvSeq < MaxOwned
    /\ IF CVAnalysisCreateError(u, cv_filename, job_description, ats_score, a) # ""
       THEN /\ last' = RetStr("cv_analysis_create",
                              CVAnalysisCreateError(u, cv_filename, job_description,
                                                    ats_score, a),
                              <<ats_score, matched_keywords>>)
            /\ UNCHANGED <<cvAnalyses, cvSeq>>
       ELSE /\ cvAnalyses' = Insert(cvAnalyses, cvSeq + 1,
                                    [user_id |-> u, application_id |-> a,
                                     ats_score |-> ats_score,
                                     matched_keywords |->
                                         json_encode(IF matched_keywords = PyNone
                                                     THEN PyList(<<>>)
                                                     ELSE matched_keywords)])
            /\ cvSeq' = cvSeq + 1
            /\ last' = [RetStr("cv_analysis_create", "ok",
                               <<ats_score, matched_keywords>>)
                           EXCEPT !.arg = cvSeq + 1]
    /\ UNCHANGED <<today, users, streaks, companies, contacts, applications, outreach,
                   goals, notifications, userQuests, onboarding>>
    /\ UNCHANGED <<userSeq, companySeq, contactSeq, appSeq, outreachSeq, goalSeq,
                   notifSeq, questSeq, onbSeq, instVars>>

\* CVAnalysis.create without matched_keywords
CVAnalysisCreate(u, cv_filename, job_description, ats_score, a) ==
    CVAnalysisCreateCall(u, cv_filename, job_description, ats_score, PyNone, a)

\* ----------------------------------------------------------- OnboardingData
VALID_FEELINGS == {"Excited and ready", "Overwhelmed but motivated",
                   "Frustrated and stuck", "Just getting started"}

\* a variant that does not look for the user's onboarding data
OnboardingCreateError_NoExistingCheck(u, current_feeling, dream_milestone) ==
    IF current_feeling \notin VALID_FEELINGS THEN "Invalid feeling"
    ELSE IF dream_milestone = <<>> \/ Len(Strip(dream_milestone)) < 10
    THEN "Dream milestone must be at least 10 characters long"
    ELSE IF u \notin DOMAIN users THEN "Failed to create onboarding data"
    ELSE ""

OnboardingCreateError(u, current_feeling, dream_milestone) ==
    IF current_feeling \notin VALID_FEELINGS THEN "Invalid feeling"
    ELSE IF dream_milestone = <<>> \/ Len(Strip(dream_milestone)) < 10
    THEN "Dream milestone must be at least 10 characters long"
    ELSE IF OwnedBy(onboarding, {u}) # {}
    THEN "Onboarding data already exists for this user"
    ELSE IF u \notin DOMAIN users THEN "Failed to create onboarding data"
    ELSE ""

OnboardingCreate(u, current_feeling, dream_milestone) ==
    /\ onbSeq < MaxOnboarding
    /\ IF OnboardingCreateError(u, current_feeling, dream_milestone) # ""
       THEN /\ last' = [RetStr("onboarding_create",
                               OnboardingCreateError(u, current_feeling, dream_milestone),
                               <<current_feeling, dream_milestone>>) EXCEPT !.arg = u]
            /\ UNCHANGED <<onboarding, onbSeq>>
       ELSE /\ onboarding' = Insert(onboarding, onbSeq + 1,
                                    [user_id |-> u, current_feeling |-> current_feeling,
                                     dream_milestone |-> Strip(dream_milestone)])
            /\ onbSeq' = onbSeq + 1
            /\ last' = [RetStr("onboarding_create", "ok",
                               <<current_feeling, dream_milestone>>) EXCEPT !.arg = u]
    /\ UNCHANGED <<today, users, streaks, companies, contacts, applications, outreach,
                   goals, notifications, userQuests, cvAnalyses>>
    /\ UNCHANGED <<userSeq, companySeq, contactSeq, appSeq, outreachSeq, goalSeq,
                   notifSeq, questSeq, cvSeq, instVars>>

\* ---------------------------------------------------------- argument pools
GoodName == <<"A", "b">>
ShortName == <<"A", " ">>
Email1 == <<"a", "@", "b", ".", "i", "o">>
Email1Upper == <<"A", "@", "b", ".", "i", "o">>
Email2 == <<"x", "@", "b", ".", "i", "o">>
GoodPassword == <<"A", "a", "a", "a", "a", "a", "1", "!">>
OtherPassword == <<"B", "b", "b", "b", "b", "b", "1", "!">>
GoodMessage == Rep("m", 10)
ShortMessage == Rep("m", 9)

\* ------------------------------------------------------------ initial states
\* the empty store, no object loaded
InitEmpty ==
    /\ today = 0
    /\ last = Ret("init", "ok")
    /\ users = EmptyTable /\ streaks = EmptyTable /\ companies = EmptyTable
    /\ contacts = EmptyTable /\ applications = EmptyTable /\ outreach = EmptyTable
    /\ goals = EmptyTable /\ notifications = EmptyTable /\ userQuests = EmptyTable
    /\ cvAnalyses = EmptyTable /\ onboarding = EmptyTable
    /\ userSeq = 0 /\ companySeq = 0 /\ contactSeq = 0 /\ appSeq = 0
    /\ outreachSeq = 0 /\ goalSeq = 0 /\ notifSeq = 0 /\ questSeq = 0
    /\ cvSeq = 0 /\ onbSeq = 0
    /\ userInst = [s \in Slots |-> NoInst]
    /\ streakInst = [s \in Slots |-> NoInst]
    /\ appInst = [s \in Slots |-> NoInst]

\* the rows User.create(Email1, GoodPassword, GoodName) leaves in an empty store
FirstUserRow == [email |-> Strip(Lower(Email1)),
                 password_hash |-> hash_password(GoodPassword),
                 name |-> Strip(GoodName)] @@ NewUserDefaults
\* the row User.create(Email2, GoodPassword, GoodName) then adds
SecondUserRow == [email |-> Strip(Lower(Email2)),
                  password_hash |-> hash_password(GoodPassword),
                  name |-> Strip(GoodName)] @@ NewUserDefaults
\* the row Company.create(1, GoodName) then leaves
FirstCompanyRow == [user_id |-> 1, name |-> Strip(GoodName), website |-> NULL]

\* ------------------------------------------- specification: applications
\* One registered user with one company; applications are created, loaded
\* into two handles, updated and deleted over several days.
InitApp ==
    /\ today = 0
    /\ last = Ret("init", "ok")
    /\ users = Insert(EmptyTable, 1, FirstUserRow)
    /\ streaks = Insert(EmptyTable, 1, NewStreakRow)
    /\ companies = Insert(EmptyTable, 1, FirstCompanyRow)
    /\ contacts = EmptyTable /\ applications = EmptyTable /\ outreach = EmptyTable
    /\ goals = EmptyTable /\ notifications = EmptyTable /\ userQuests = EmptyTable
    /\ cvAnalyses = EmptyTable /\ onboarding = EmptyTable
    /\ userSeq = 1 /\ companySeq = 1 /\ contactSeq = 0 /\ appSeq = 0
    /\ outreachSeq = 0 /\ goalSeq = 0 /\ notifSeq = 0 /\ questSeq = 0
    /\ cvSeq = 0 /\ onbSeq = 0
    /\ userInst = [s \in Slots |-> NoInst]
    /\ streakInst = [s \in Slots |-> NoInst]
    /\ appInst = [s \in Slots |-> NoInst]

NextApp ==
    \/ NextDay
    \/ \E c \in 1..2, t \in {GoodName, ShortName},
          st \in {"Planned", "Applied", "InvalidStatus"} :
          AppCreate(1, c, t, st, NoDate)
    \/ \E s \in Slots, i \in 1..appSeq : AppFind(s, i)
    \/ \E s \in Slots, st \in {"Applied", "Interview", "InvalidStatus"} :
          AppUpdateStatus(s, st)
    \/ \E s \in Slots, st \in {NULL, "Planned"}, d \in {NoDate, today} :
          AppUpdate(s, st, d)
    \/ \E s \in Slots : AppDelete(s)

SpecApp == InitApp /\ [][NextApp]_vars

\* the step is a status change: update_status, or update with a status and
\* no applied_date argument, that returned True
StatusChangeStep ==
    /\ last'.op \in {"app_update", "app_update_status"}
    /\ last'.res = "True"
    /\ last'.arg = NoDate

\* the row the status change was addressed to
ChangedApp == appInst'[last'.slot].id

\* C1: a status change to 'Applied' of a stored application whose
\* applied_date is unset stores today's date, and a status change of a
\* stored application whose applied_date holds a date leaves that date as
\* it is, whichever loaded object of the row makes the change.
C1_AppliedDateSetOnce ==
    [][StatusChangeStep /\ ChangedApp \in DOMAIN applications =>
        /\ (~DateTruthy(applications[ChangedApp].applied_date)
              /\ applications'[ChangedApp].status = "Applied")
           => applications'[ChangedApp].applied_date = today
        /\ DateTruthy(applications[ChangedApp].applied_date)
           => applications'[ChangedApp].applied_date =
                 applications[ChangedApp].applied_date]_vars

\* ----------------------------------------------- specification: streaks
\* the store after User.create(Email1, GoodPassword, GoodName)
InitRegistered ==
    /\ today = 0
    /\ last = Ret("init", "ok")
    /\ users = Insert(EmptyTable, 1, FirstUserRow)
    /\ streaks = Insert(EmptyTable, 1, NewStreakRow)
    /\ companies = EmptyTable
    /\ contacts = EmptyTable /\ applications = EmptyTable /\ outreach = EmptyTable
    /\ goals = EmptyTable /\ notifications = EmptyTable /\ userQuests = EmptyTable
    /\ cvAnalyses = EmptyTable /\ onboarding = EmptyTable
    /\ userSeq = 1 /\ companySeq = 0 /\ contactSeq = 0 /\ appSeq = 0
    /\ outreachSeq = 0 /\ goalSeq = 0 /\ notifSeq = 0 /\ questSeq = 0
    /\ cvSeq = 0 /\ onbSeq = 0
    /\ userInst = [s \in Slots |-> NoInst]
    /\ streakInst = [s \in Slots |-> NoInst]
    /\ appInst = [s \in Slots |-> NoInst]

\* One registered user; the streak is loaded into two handles and updated
\* through them over several days.
InitStreak == InitRegistered

PointArgs == {10}

NextStreak ==
    \/ NextDay
    \/ \E s \in Slots, u \in 1..userSeq : StreakFind(s, u)
    \/ \E s \in Slots, u \in 1..userSeq : StreakGetOrCreate(s, u)
    \/ \E s \in Slots, p \in PointArgs : UpdateActivity(s, p)
    \/ \E s \in Slots, p \in PointArgs : AddPoints(s, p)
    \/ \E s \in Slots : ResetStreak(s)

SpecStreak == InitStreak /\ [][NextStreak]_vars

\* C2: update_activity(points) on a loaded streak object: when the object's
\* last_activity_date is today, current_streak and longest_streak stay; when
\* it is the day before today, current_streak grows by one and longest_streak
\* becomes the larger of its old value and the new current_streak; when it is
\* older or absent, current_streak becomes 1; always last_activity_date
\* becomes today and total_points grows by points, in the object and, with
\* the object's new streak values, in the stored row.
C2_UpdateActivityBranches ==
    [][last'.op = "update_activity" =>
        LET self == streakInst[last'.slot]
            after == streakInst'[last'.slot]
            u == self.user_id
        IN
        /\ self.last_activity_date = today =>
              /\ after.current_streak = self.current_streak
              /\ after.longest_streak = self.longest_streak
        /\ self.last_activity_date = today - 1 =>
              /\ after.current_streak = self.current_streak + 1
              /\ after.longest_streak = Max(self.longest_streak, after.current_streak)
        /\ (self.last_activity_date = NoDate \/ self.last_activity_date <= today - 2) =>
              after.current_streak = 1
        /\ after.last_activity_date = today
        /\ after.total_points = self.total_points + last'.arg
        /\ u \in DOMAIN streaks =>
              /\ streaks'[u].current_streak = after.current_streak
              /\ streaks'[u].longest_streak = after.longest_streak
              /\ streaks'[u].last_activity_date = today
              /\ streaks'[u].total_points = streaks[u].total_points + last'.arg]_vars

\* update_activity has just incremented a streak on the day after the last
\* activity
C2_Witness ==
    /\ last.op = "update_activity"
    /\ today = 1
    /\ streaks[1].current_streak = 2
    /\ streaks[1].longest_streak = 2
    /\ streaks[1].last_activity_date = today

\* C3: no call of update_activity, add_points or reset_streak, on whichever
\* loaded object, lowers the stored longest_streak of a user.
C3_LongestNeverDecreases ==
    [][\A u \in DOMAIN streaks \cap DOMAIN streaks' :
          streaks'[u].longest_streak >= streaks[u].longest_streak]_vars

\* ------------------------------------------------- specification: goals
\* One registered user; weekly goals are created with and without an explicit
\* week_start, and deleted, from a Saturday on into the next week.
InitGoal == InitRegistered

NextGoal ==
    \/ NextDay
    \/ \E u \in 1..2, ag \in {0, 5}, og \in {0, 3}, ws \in {NoDate} \cup Days :
          GoalCreate(u, ag, og, ws)
    \/ \E u \in 1..2 : GoalGetOrCreateCurrentWeek(u, 5, 3)
    \/ \E i \in 1..goalSeq : GoalDelete(i)

SpecGoal == InitGoal /\ [][NextGoal]_vars

\* two dates lie in the same Monday-aligned calendar week
SameWeek(d, e) == get_week_start(d) = get_week_start(e)

\* C5: no call adds a goal for a user who already has a goal in the calendar
\* week of the new goal, so a user never has two goals in one calendar week.
C5_OneGoalPerWeek ==
    [][/\ \A g \in DOMAIN goals' \ DOMAIN goals :
            ~\E h \in DOMAIN goals :
                /\ goals[h].user_id = goals'[g].user_id
                /\ SameWeek(goals[h].week_start, goals'[g].week_start)
       /\ \A g, h \in DOMAIN goals' :
            (g # h /\ goals'[g].user_id = goals'[h].user_id)
               => ~SameWeek(goals'[g].week_start, goals'[h].week_start)]_vars

\* C6: the week_start of every stored goal is a Monday.
C6_WeekStartIsMonday ==
    \A g \in DOMAIN goals : goals[g].week_start = get_week_start(goals[g].week_start)

\* ---------------------------------------------- specification: outreach
\* One user with a company, a contact at it and an application to it;
\* outreach is created with every combination of links, updated and deleted.
FirstContactRow == [company_id |-> 1, name |-> Strip(GoodName), email |-> Lower(<<>>)]
FirstAppRow == [user_id |-> 1, company_id |-> 1, status |-> "Planned",
                applied_date |-> NoDate]

InitOutreach ==
    /\ today = 0
    /\ last = Ret("init", "ok")
    /\ users = Insert(EmptyTable, 1, FirstUserRow)
    /\ streaks = Insert(EmptyTable, 1, NewStreakRow)
    /\ companies = Insert(EmptyTable, 1, FirstCompanyRow)
    /\ contacts = Insert(EmptyTable, 1, FirstContactRow)
    /\ applications = Insert(EmptyTable, 1, FirstAppRow)
    /\ outreach = EmptyTable
    /\ goals = EmptyTable /\ notifications = EmptyTable /\ userQuests = EmptyTable
    /\ cvAnalyses = EmptyTable /\ onboarding = EmptyTable
    /\ userSeq = 1 /\ companySeq = 1 /\ contactSeq = 1 /\ appSeq = 1
    /\ outreachSeq = 0 /\ goalSeq = 0 /\ notifSeq = 0 /\ questSeq = 0
    /\ cvSeq = 0 /\ onbSeq = 0
    /\ userInst = [s \in Slots |-> NoInst]
    /\ streakInst = [s \in Slots |-> NoInst]
    /\ appInst = [s \in Slots |-> NoInst]

NextOutreach ==
    \/ NextDay
    \/ \E k \in 1..2, ch \in {"email", "sms"}, m \in {GoodMessage, ShortMessage},
          a \in 0..1, c \in 0..1, st \in {"Sent", "InvalidStatus"} :
          OutreachCreate(1, k, ch, m, a, c, NoDate, st)
    \/ \E i \in 1..outreachSeq, d \in {NoDate, today},
          st \in {NULL, "Responded", "InvalidStatus"} :
          OutreachUpdate(i, d, st)
    \/ \E i \in 1..outreachSeq : OutreachDelete(i)

SpecOutreach == InitOutreach /\ [][NextOutreach]_vars

\* exactly one of the two references is set (0 is "not set")
ExactlyOneSet(a, c) == (a = 0) # (c = 0)

\* C4: Outreach.create called with both or neither of application_id and
\* company_id raises the exactly-one error and stores nothing, and after
\* every step each stored outreach row has exactly one of the two set.
C4_ExactlyOneLink ==
    [][/\ (last'.op = "outreach_create" /\ ~ExactlyOneSet(last'.str[1], last'.str[2]))
            => /\ last'.res = "Must provide exactly ONE of application_id or company_id"
               /\ outreach' = outreach
       /\ \A o \in DOMAIN outreach' :
             ExactlyOneSet(outreach'[o].application_id, outreach'[o].company_id)]_vars

\* a row is stored, and a create carrying both links has just been refused
C4_Witness ==
    /\ last.op = "outreach_create"
    /\ last.str = <<1, 1>>
    /\ last.res = "Must provide exactly ONE of application_id or company_id"
    /\ \E o \in DOMAIN outreach : outreach[o].status = "Responded"

\* ----------------------------------------------- specification: cascade
\* One registered user; companies, contacts, applications and outreach are
\* created and deleted, MaxRows rows being created in all.
InitCascade == InitRegistered

RowsCreated == companySeq + contactSeq + appSeq + outreachSeq + goalSeq
               + notifSeq + questSeq + cvSeq + onbSeq

NextCascade ==
    \/ RowsCreated < MaxRows /\ \E u \in 1..userSeq : CompanyCreate(u, GoodName)
    \/ RowsCreated < MaxRows /\ \E c \in 1..companySeq : ContactCreate(c, GoodName, <<>>)
    \/ RowsCreated < MaxRows /\ \E u \in 1..userSeq, c \in 1..companySeq :
          AppCreate(u, c, GoodName, "Planned", NoDate)
    \/ RowsCreated < MaxRows /\
          \E u \in 1..userSeq, k \in 1..contactSeq, a \in 0..appSeq, c \in 0..companySeq :
             OutreachCreate(u, k, "email", GoodMessage, a, c, NoDate, "Sent")
    \/ \E i \in 1..companySeq : CompanyDelete(i)
    \/ \E i \in 1..contactSeq : ContactDelete(i)
    \/ \E i \in 1..appSeq : AppFind("h1", i)
    \/ AppDelete("h1")
    \/ \E i \in 1..outreachSeq : OutreachDelete(i)

SpecCascade == InitCascade /\ [][NextCascade]_vars

\* the contacts and the applications of company c
ContactsOf(c) == {k \in DOMAIN contacts : contacts[k].company_id = c}
ApplicationsOf(c) == {a \in DOMAIN applications : applications[a].company_id = c}

\* C9: a Company.delete that returns True leaves no contact and no
\* application of the company and no outreach linked to the company, to one
\* of its applications or to one of its contacts; a Contact.delete that
\* returns True leaves no outreach of the contact; and after every step each
\* contact, application and outreach row references rows that exist.
C9_CascadeAndReferences ==
    [][/\ (last'.op = "company_delete" /\ last'.res = "True") =>
            /\ \A k \in DOMAIN contacts' : contacts'[k].company_id # last'.arg
            /\ \A a \in DOMAIN applications' : applications'[a].company_id # last'.arg
            /\ \A o \in DOMAIN outreach' :
                  /\ outreach'[o].company_id # last'.arg
                  /\ outreach'[o].application_id \notin ApplicationsOf(last'.arg)
                  /\ outreach'[o].contact_id \notin ContactsOf(last'.arg)
       /\ (last'.op = "contact_delete" /\ last'.res = "True") =>
            \A o \in DOMAIN outreach' : outreach'[o].contact_id # last'.arg
       /\ \A k \in DOMAIN contacts' : contacts'[k].company_id \in DOMAIN companies'
       /\ \A a \in DOMAIN applications' :
             applications'[a].company_id \in DOMAIN companies'
       /\ \A o \in DOMAIN outreach' :
             /\ outreach'[o].contact_id \in DOMAIN contacts'
             /\ outreach'[o].application_id \in {0} \cup DOMAIN applications'
             /\ outreach'[o].company_id \in {0} \cup DOMAIN companies']_vars

\* Company.delete has just removed the only company, of which a contact, an
\* application and an outreach had been stored
C9_Witness ==
    /\ last.op = "company_delete" /\ last.res = "True"
    /\ companySeq = 1 /\ contactSeq = 1 /\ appSeq = 1 /\ outreachSeq = 1
    /\ contacts = EmptyTable /\ applications = EmptyTable /\ outreach = EmptyTable

\* ------------------------------------------- specification: user deletion
\* Two registered users; rows of every table are created for either of them,
\* MaxRows rows in all, and users are loaded and deleted.
InitUserDelete ==
    /\ today = 0
    /\ last = Ret("init", "ok")
    /\ users = Insert(Insert(EmptyTable, 1, FirstUserRow), 2, SecondUserRow)
    /\ streaks = Insert(Insert(EmptyTable, 1, NewStreakRow), 2, NewStreakRow)
    /\ companies = EmptyTable
    /\ contacts = EmptyTable /\ applications = EmptyTable /\ outreach = EmptyTable
    /\ goals = EmptyTable /\ notifications = EmptyTable /\ userQuests = EmptyTable
    /\ cvAnalyses = EmptyTable /\ onboarding = EmptyTable
    /\ userSeq = 2 /\ companySeq = 0 /\ contactSeq = 0 /\ appSeq = 0
    /\ outreachSeq = 0 /\ goalSeq = 0 /\ notifSeq = 0 /\ questSeq = 0
    /\ cvSeq = 0 /\ onbSeq = 0
    /\ userInst = [s \in Slots |-> NoInst]
    /\ streakInst = [s \in Slots |-> NoInst]
    /\ appInst = [s \in Slots |-> NoInst]

NextUserDelete ==
    \/ RowsCreated < MaxRows /\ \E u \in 1..userSeq : CompanyCreate(u, GoodName)
    \/ RowsCreated < MaxRows /\ \E c \in 1..companySeq : ContactCreate(c, GoodName, <<>>)
    \/ RowsCreated < MaxRows /\ \E u \in 1..userSeq, c \in 1..companySeq :
          AppCreate(u, c, GoodName, "Planned", NoDate)
    \/ RowsCreated < MaxRows /\
          \E u \in 1..userSeq, k \in 1..contactSeq, a \in 0..appSeq, c \in 0..companySeq :
             OutreachCreate(u, k, "email", GoodMessage, a, c, NoDate, "Sent")
    \/ RowsCreated < MaxRows /\ \E u \in 1..userSeq : GoalCreate(u, 5, 3, NoDate)
    \/ RowsCreated < MaxRows /\ \E u \in 1..userSeq :
          NotificationCreate(u, "system", GoodMessage, GoodMessage, NULL, 0)
    \/ RowsCreated < MaxRows /\ questSeq < MaxOwned /\
          \E u \in 1..userSeq : UserQuestCreate(u, GoodName)
    \/ RowsCreated < MaxRows /\ \E u \in 1..userSeq, a \in 0..appSeq :
          CVAnalysisCreate(u, GoodMessage, Rep("m", 50), 80, a)
    \/ RowsCreated < MaxRows /\ onbSeq < MaxOwned /\ \E u \in 1..userSeq :
          OnboardingCreate(u, "Excited and ready", GoodMessage)
    \/ \E i \in 1..userSeq : UserFind("h1", i)
    \/ UserDelete("h1")

SpecUserDelete == InitUserDelete /\ [][NextUserDelete]_vars

\* after the step no row of the table belongs to user id, and the rows of the
\* table that belonged to other users are as before
NoneLeftOf(after, id) == \A i \in DOMAIN after : after[i].user_id # id
OthersKept(before, after, id) ==
    \A i \in DOMAIN before :
        before[i].user_id # id => (i \in DOMAIN after /\ after[i] = before[i])

\* C8: a User.delete that returns True leaves no row of any table that
\* belonged to the user or to one of the user's companies, and leaves every
\* row of the other users as it was.
C8_UserDeleteRemovesOnlyOwn ==
    [][(last'.op = "user_delete" /\ last'.res = "True") =>
        LET id == last'.arg IN
        /\ id \notin DOMAIN users' /\ id \notin DOMAIN streaks'
        /\ NoneLeftOf(companies', id) /\ NoneLeftOf(applications', id)
        /\ NoneLeftOf(outreach', id) /\ NoneLeftOf(goals', id)
        /\ NoneLeftOf(notifications', id) /\ NoneLeftOf(userQuests', id)
        /\ NoneLeftOf(cvAnalyses', id) /\ NoneLeftOf(onboarding', id)
        /\ \A k \in DOMAIN contacts' : companies[contacts[k].company_id].user_id # id
        /\ \A u \in DOMAIN users \ {id} :
              /\ u \in DOMAIN users' /\ users'[u] = users[u]
              /\ u \in DOMAIN streaks' /\ streaks'[u] = streaks[u]
        /\ OthersKept(companies, companies', id)
        /\ OthersKept(applications, applications', id)
        /\ OthersKept(outreach, outreach', id)
        /\ OthersKept(goals, goals', id)
        /\ OthersKept(notifications, notifications', id)
        /\ OthersKept(userQuests, userQuests', id)
        /\ OthersKept(cvAnalyses, cvAnalyses', id)
        /\ OthersKept(onboarding, onboarding', id)
        /\ \A k \in DOMAIN contacts :
              companies[contacts[k].company_id].user_id # id
                 => (k \in DOMAIN contacts' /\ contacts'[k] = contacts[k])]_vars

\* ------------------------------------------------- specification: users
\* Users are registered with emails that differ in case only or not at all,
\* loaded into two handles, given new emails and names, and deleted.
Email1NL == Email1 \o <<NL>>
EmailArgs == {Email1, Email1Upper, Email1NL, Email2}

InitUser == InitEmpty

NextUser ==
    \/ \E e \in EmailArgs \cup {<<"a", "@", "b">>}, n \in {GoodName, ShortName} :
          UserCreate(e, GoodPassword, n)
    \/ \E s \in Slots, i \in 1..userSeq : UserFind(s, i)
    \/ \E s \in Slots, n \in {<<>>, GoodName, ShortName}, e \in EmailArgs \cup {<<>>} :
          UserUpdateProfile(s, n, e)
    \/ \E s \in Slots : UserDelete(s)

SpecUser == InitUser /\ [][NextUser]_vars

\* two emails are equal ignoring letter case
SameEmail(e, f) == Lower(e) = Lower(f)

\* C7: User.create with an email that equals a stored user's email ignoring
\* case raises a validation error and leaves the users as they are, and after
\* every step no two stored users have emails that are equal ignoring case.
C7_EmailUniqueIgnoringCase ==
    [][/\ (last'.op = "user_create"
             /\ \E i \in DOMAIN users : SameEmail(users[i].email, last'.str[1]))
          => /\ last'.res \notin {"ok", "Failed to create user"}
             /\ users' = users
       /\ \A i, j \in DOMAIN users' :
             i # j => ~SameEmail(users'[i].email, users'[j].email)]_vars

\* a second user exists, and a create with the first user's email in another
\* case has just been refused
C7_Witness ==
    /\ last.op = "user_create"
    /\ last.str[1] = Email1Upper
    /\ last.res = "Email already registered"
    /\ 1 \in DOMAIN users /\ users[1].email = Email1
    /\ 2 \in DOMAIN users

\* --------------------------------------------- specification: passwords
\* A user registers and changes the password, with passwords made of a run
\* of uppercase letters, a run of lowercase letters, and at most one digit
\* and one special character.
UpperRuns == {0, 1} \cup (MaxRun - 2)..MaxRun
LowerRuns == {0, 1, MaxRun}
Pw(u, l, d, s) == Rep("A", u) \o Rep("a", l) \o Rep("1", d) \o Rep("!", s)
Passwords ==
    {Pw(u, l, d, s) : u \in UpperRuns, l \in LowerRuns, d \in 0..1, s \in 0..1}

\* the passwords that a caller who knows the password of the object in slot s
\* gives as old_password, and a wrong one
OldPasswordArgs(s) ==
    IF userInst[s] = NoInst THEN {}
    ELSE {p \in Passwords : verify_password(p, userInst[s].password_hash)} \cup {<<>>}

InitPassword == InitEmpty

NextPassword ==
    \/ \E p \in Passwords : UserCreate(Email1, p, GoodName)
    \/ \E i \in 1..userSeq : UserFind("h1", i)
    \/ \E new \in Passwords :
          \E old \in OldPasswordArgs("h1") : UserChangePassword("h1", old, new)

SpecPassword == InitPassword /\ [][NextPassword]_vars

\* the five rules, and the message that names each
LongEnough(p) == Len(p) >= 8
HasUpper(p) == \E k \in DOMAIN p : p[k] \in UpperLetters
HasLower(p) == \E k \in DOMAIN p : p[k] \in LowerLetters
HasDigit(p) == \E k \in DOMAIN p : p[k] \in Digits
HasSpecial(p) == \E k \in DOMAIN p : p[k] \in SpecialChars
RulesBroken(p) ==
    {m \in {MsgLength, MsgUpper, MsgLowerCase, MsgDigit, MsgSpecial} :
        \/ m = MsgLength /\ ~LongEnough(p)
        \/ m = MsgUpper /\ ~HasUpper(p)
        \/ m = MsgLowerCase /\ ~HasLower(p)
        \/ m = MsgDigit /\ ~HasDigit(p)
        \/ m = MsgSpecial /\ ~HasSpecial(p)}

\* the password given to the User.create or User.change_password of the step
GivenPassword == last'.str[Len(last'.str)]

\* C10: validate_password accepts the password given to User.create or
\* User.change_password exactly when it breaks none of the five rules; for a
\* password that breaks exactly one rule it returns the message of that rule,
\* and so does the call once the checks before the password pass; and a call
\* with a password that breaks a rule leaves users and streaks as they are.
C10_PasswordRules ==
    [][last'.op \in {"user_create", "user_change_password"} =>
        /\ (validate_password(GivenPassword) = "") <=> (RulesBroken(GivenPassword) = {})
        /\ \A m \in RulesBroken(GivenPassword) :
              RulesBroken(GivenPassword) = {m} =>
                 /\ validate_password(GivenPassword) = m
                 /\ last'.res \in {m, "Current password is incorrect"}
        /\ RulesBroken(GivenPassword) # {} =>
              /\ last'.res \notin {"ok", "True"}
              /\ users' = users /\ streaks' = streaks]_vars

\* a change of password to one that lacks only the digit has just been
\* refused with the message of the digit rule
C10_Witness ==
    /\ last.op = "user_change_password"
    /\ last.res = MsgDigit
    /\ RulesBroken(last.str[1]) = {MsgDigit}
    /\ 1 \in DOMAIN users

\* ------------------------------------------- specification: CV analyses
AtsScoreLimit == 100

\* a variant that takes a score of 80 for Good
get_score_category_Over80(ats_score) ==
    IF ats_score > 80 THEN "Excellent"
    ELSE IF ats_score >= 60 THEN "Good"
    ELSE IF ats_score >= 40 THEN "Fair"
    ELSE "Poor"

\* CVAnalysis.get_score_category, of an object whose ats_score is given
get_score_category(ats_score) ==
    IF ats_score >= 80 THEN "Excellent"
    ELSE IF ats_score >= 60 THEN "Good"
    ELSE IF ats_score >= 40 THEN "Fair"
    ELSE "Poor"

\* CVAnalysis.find_by_id(i).get_score_category()
CVGetScoreCategory(i) ==
    /\ i \in DOMAIN cvAnalyses
    /\ last' = RetArg("get_score_category",
                      get_score_category(cvAnalyses[i].ats_score), i)
    /\ UNCHANGED <<today, tables, seqVars, instVars>>

\* CVAnalysis.delete on a CVAnalysis object of id i
CVAnalysisDelete(i) ==
    /\ i \in 1..cvSeq
    /\ cvAnalyses' = Remove(cvAnalyses, {i})
    /\ last' = RetArg("cv_analysis_delete",
                      IF i \in DOMAIN cvAnalyses THEN "True" ELSE "False", i)
    /\ UNCHANGED <<today, users, streaks, companies, contacts, applications, outreach,
                   goals, notifications, userQuests, onboarding>>
    /\ UNCHANGED <<seqVars, instVars>>

\* One registered user; an analysis is stored with every score from below 0
\* to above AtsScoreLimit, categorised and deleted, one analysis at a time.
ScoreArgs == (0 - 2)..(AtsScoreLimit + 2)
GoodDescription == Rep("j", 50)

InitCV == InitRegistered

NextCV ==
    \/ cvAnalyses = EmptyTable /\
          \E s \in ScoreArgs, f \in {GoodMessage, ShortName} :
             CVAnalysisCreate(1, f, GoodDescription, s, 0)
    \/ \E i \in 1..cvSeq : CVGetScoreCategory(i)
    \/ \E i \in 1..cvSeq : CVAnalysisDelete(i)

SpecCV == InitCV /\ [][NextCV]_vars

\* C11: get_score_category of a stored analysis, whose score is in 0..100,
\* is 'Excellent' exactly for scores of 80 and more, 'Good' exactly for 60
\* to 79, 'Fair' exactly for 40 to 59 and 'Poor' exactly for 39 and less;
\* and CVAnalysis.create with a score outside 0..100 raises the score error
\* and stores no row.
C11_ScoreCategories ==
    [][/\ last'.op = "get_score_category" =>
            LET s == cvAnalyses[last'.arg].ats_score IN
            /\ s \in 0..AtsScoreLimit
            /\ (last'.res = "Excellent") <=> (s >= 80)
            /\ (last'.res = "Good") <=> (60 <= s /\ s <= 79)
            /\ (last'.res = "Fair") <=> (40 <= s /\ s <= 59)
            /\ (last'.res = "Poor") <=> (s <= 39)
       /\ (last'.op = "cv_analysis_create" /\ last'.str[1] \notin 0..AtsScoreLimit) =>
            /\ last'.res = "ATS score must be an integer between 0 and 100"
            /\ cvAnalyses' = cvAnalyses /\ cvSeq' = cvSeq]_vars

\* an analysis with the score 80 has just been categorised
C11_Witness ==
    /\ last.op = "get_score_category"
    /\ last.res = "Excellent"
    /\ cvAnalyses[last.arg].ats_score = 80

\* ----------------------------------------------- User: authentication
\* a variant that lets an inactive account in
AuthenticateError_NoActiveCheck(email, password) ==
    IF find_by_email(email) = 0 THEN "Invalid email or password"
    ELSE IF ~verify_password(password, users[find_by_email(email)].password_hash)
    THEN "Invalid email or password"
    ELSE ""

\* the error User.authenticate raises, "" when it raises none
AuthenticateError(email, password) ==
    IF find_by_email(email) = 0 THEN "Invalid email or password"
    ELSE IF ~users[find_by_email(email)].is_active THEN "Account is inactive"
    ELSE IF ~verify_password(password, users[find_by_email(email)].password_hash)
    THEN "Invalid email or password"
    ELSE ""

\* User.authenticate(email, password); the id of the user returned is
\* reported, and datetime.now() is taken to the day
UserAuthenticate(email, password) ==
    LET i == find_by_email(email) IN
    /\ IF AuthenticateError(email, password) # ""
       THEN /\ last' = RetStr("user_authenticate", AuthenticateError(email, password),
                              <<email, password>>)
            /\ UNCHANGED users
       ELSE /\ users' = [users EXCEPT ![i].last_login = today]
            /\ last' = [RetStr("user_authenticate", "ok", <<email, password>>)
                           EXCEPT !.arg = i]
    /\ UNCHANGED <<today, streaks, companies, contacts, applications, outreach, goals,
                   notifications, userQuests, cvAnalyses, onboarding>>
    /\ UNCHANGED <<seqVars, instVars>>

\* User.deactivate / User.activate on the object in slot s
UserSetActive(op, s, value) ==
    LET self == userInst[s] IN
    /\ self # NoInst
    /\ users' = IF self.id \in DOMAIN users
                THEN [users EXCEPT ![self.id].is_active = value]
                ELSE users
    /\ userInst' = [userInst EXCEPT ![s].is_active = value]
    /\ last' = RetSlot(op, "True", s, self.id)
    /\ UNCHANGED <<today, streaks, companies, contacts, applications, outreach, goals,
                   notifications, userQuests, cvAnalyses, onboarding>>
    /\ UNCHANGED <<seqVars, streakInst, appInst>>

UserDeactivate(s) == UserSetActive("user_deactivate", s, FALSE)
UserActivate(s) == UserSetActive("user_activate", s, TRUE)

\* ------------------------------------- specification: authentication
\* One registered user and at most one more, on one day; users log in with
\* the email as stored, in another case, padded with a blank, and with a
\* wrong password, are deactivated and activated, change the password and
\* are deleted.
Email1Padded == <<" ">> \o Email1
AuthEmailArgs == {Email1, Email1Upper, Email1Padded, Email2}
AuthPasswordArgs == {GoodPassword, OtherPassword}

InitAuth == InitRegistered

NextAuth ==
    \/ UserCreate(Email2, OtherPassword, GoodName)
    \/ \E i \in 1..userSeq : UserFind("h1", i)
    \/ \E e \in AuthEmailArgs, p \in AuthPasswordArgs : UserAuthenticate(e, p)
    \/ UserDeactivate("h1")
    \/ UserActivate("h1")
    \/ \E old \in AuthPasswordArgs, new \in AuthPasswordArgs \cup {<<>>} :
          UserChangePassword("h1", old, new)
    \/ UserDelete("h1")

SpecAuth == InitAuth /\ [][NextAuth]_vars

\* the stored users whose email is e ignoring case, who are active and whose
\* password hash is the hash of p
ValidLogins(e, p) ==
    {i \in DOMAIN users : /\ SameEmail(users[i].email, e)
                          /\ users[i].is_active
                          /\ users[i].password_hash = hash_password(p)}

\* an account that is inactive becomes active only by User.activate
ActiveOnlyByActivate ==
    /\ last'.op = "user_deactivate" /\ last'.arg \in DOMAIN users'
          => ~users'[last'.arg].is_active
    /\ \A i \in DOMAIN users \cap DOMAIN users' :
          (~users[i].is_active /\ users'[i].is_active)
             => (last'.op = "user_activate" /\ last'.arg = i)

\* the claim of C12 as it is worded: the email given is compared ignoring
\* case only
C12_AuthenticateAsWorded ==
    [][/\ last'.op = "user_authenticate" =>
            /\ last'.res = "ok" => ValidLogins(last'.str[1], last'.str[2]) # {}
            /\ ValidLogins(last'.str[1], last'.str[2]) = {} =>
                  /\ last'.res \in {"Invalid email or password", "Account is inactive"}
                  /\ UNCHANGED tables
       /\ ActiveOnlyByActivate]_vars

\* C12: User.authenticate returns the user and sets last_login exactly when
\* a stored user has the given email, ignoring case and blanks around it, is
\* active and has the hash of the given password as password hash; in every
\* other case it raises a validation error and leaves every table as it is.
\* An account deactivated by User.deactivate stays inactive, so that every
\* authenticate for it fails, until User.activate is called for it.
C12_Authenticate ==
    [][/\ last'.op = "user_authenticate" =>
            LET V == ValidLogins(Strip(last'.str[1]), last'.str[2]) IN
            /\ last'.res = "ok" <=> V # {}
            /\ last'.res = "ok" =>
                  /\ last'.arg \in V
                  /\ users' = [users EXCEPT ![last'.arg].last_login = today]
            /\ last'.res # "ok" =>
                  /\ last'.res \in {"Invalid email or password", "Account is inactive"}
                  /\ UNCHANGED tables
       /\ ActiveOnlyByActivate]_vars

\* a user who had logged in before has just been refused as inactive, with
\* the right password
C12_Witness ==
    /\ last.op = "user_authenticate"
    /\ last.res = "Account is inactive"
    /\ last.str = <<Email1Upper, GoodPassword>>
    /\ 1 \in DOMAIN users
    /\ users[1].last_login # NoDate
    /\ users[1].password_hash = hash_password(GoodPassword)

\* the step is a change_password that returned True
PasswordChanged == last'.op = "user_change_password" /\ last'.res = "True"

\* C13: a change_password that returns True makes the new password the one
\* stored for the user of the object; the stored password of a user changes
\* by no other step than a change_password of that user that returns True;
\* and authenticate for an active account succeeds with the stored password
\* and fails with every other one.  So from a change_password(old, new) that
\* returned True, with new different from old, until the next one,
\* authenticate succeeds with new and fails with old.
C13_NewPasswordWorks ==
    [][/\ PasswordChanged =>
            /\ last'.arg \in DOMAIN users'
            /\ users'[last'.arg].password_hash = hash_password(last'.str[1])
       /\ \A i \in DOMAIN users \cap DOMAIN users' :
             users'[i].password_hash # users[i].password_hash
                => (PasswordChanged /\ last'.arg = i)
       /\ last'.op = "user_authenticate" =>
             \A i \in DOMAIN users :
                (SameEmail(users[i].email, Strip(last'.str[1])) /\ users[i].is_active)
                   => (last'.res = "ok"
                         <=> users[i].password_hash = hash_password(last'.str[2]))]_vars

\* ------------------------------------------------------ Company: update
\* Company.find_by_name(u, name): the id of the row returned (0 for None)
find_by_name(u, name) ==
    IF CompanyNameMatches(u, name) = {} THEN 0
    ELSE CHOOSE c \in CompanyNameMatches(u, name) :
            \A d \in CompanyNameMatches(u, name) : c <= d

\* the error Company.update raises on an object of id i and user_id u, ""
\* when it raises none; a name that is None or "" is <<>>
CompanyUpdateError(i, u, name) ==
    IF name # <<>> /\ ~validate_name(name)
    THEN "Company name must be at least 2 characters long"
    ELSE IF name # <<>> /\ find_by_name(u, name) \notin {0, i}
    THEN "Company already exists in your list"
    ELSE ""

\* Company.update(name=..., website=...) on a Company object of id i and
\* user_id u; the user_id of an object is the one of its row, which no
\* operation changes
CompanyUpdate(i, u, name, website) ==
    /\ i \in 1..companySeq
    /\ u \in 1..userSeq
    /\ i \in DOMAIN companies => u = companies[i].user_id
    /\ IF CompanyUpdateError(i, u, name) # ""
       THEN /\ last' = RetArg("company_update", CompanyUpdateError(i, u, name), i)
            /\ UNCHANGED companies
       ELSE IF name = <<>> /\ website = NULL
       THEN /\ last' = RetArg("company_update", "False", i)
            /\ UNCHANGED companies
       ELSE /\ companies' =
                 IF i \in DOMAIN companies
                 THEN [companies EXCEPT
                         ![i].name = IF name # <<>> THEN Strip(name) ELSE @,
                         ![i].website = IF website # NULL THEN website ELSE @]
                 ELSE companies
            /\ last' = RetArg("company_update", "True", i)
    /\ UNCHANGED <<today, users, streaks, contacts, applications, outreach, goals,
                   notifications, userQuests, cvAnalyses, onboarding>>
    /\ UNCHANGED <<seqVars, instVars>>

\* ------------------------------------------- specification: companies
\* Two registered users; companies are created, renamed and deleted, with
\* names that differ in the case of an ASCII letter or of another letter.
NameUpper == <<"A", "B">>
NameAccent == <<"é", "b">>
NameAccentUpper == <<"É", "b">>
CompanyNameArgs == {GoodName, NameUpper, NameAccent, NameAccentUpper, ShortName}

InitCompany == InitUserDelete

NextCompany ==
    \/ \E u \in 1..userSeq, n \in CompanyNameArgs : CompanyCreate(u, n)
    \/ \E i \in 1..companySeq, u \in 1..userSeq,
          n \in CompanyNameArgs \cup {<<>>}, w \in {NULL, "w"} :
          CompanyUpdate(i, u, n, w)
    \/ \E i \in 1..companySeq : CompanyDelete(i)

SpecCompany == InitCompany /\ [][NextCompany]_vars

\* two names are equal ignoring letter case
SameName(n, m) == Lower(n) = Lower(m)

\* C14: no user owns two companies whose names are equal ignoring letter
\* case, and a Company.create or Company.update that does not return a
\* company or True leaves the companies as they are.
C14_CompanyNamesUnique ==
    [][/\ \A c, d \in DOMAIN companies' :
             (c # d /\ companies'[c].user_id = companies'[d].user_id)
                => ~SameName(companies'[c].name, companies'[d].name)
       /\ (last'.op \in {"company_create", "company_update"}
             /\ last'.res \notin {"ok", "True"}) => companies' = companies]_vars

\* ------------------------------------------------------ Contact: update
\* an argument that is left out (None), where "" has a meaning of its own
NoArg == <<"None">>

\* Contact.find_by_email(c, email): the id of the row returned (0 for None)
contact_find_by_email(c, email) ==
    IF ContactEmailMatches(c, email) = {} THEN 0
    ELSE CHOOSE k \in ContactEmailMatches(c, email) :
            \A l \in ContactEmailMatches(c, email) : k <= l

\* the error Contact.update raises on an object of id i and company_id c, ""
\* when it raises none; a name that is None or "" is <<>>, an email that is ""
\* is <<>>
ContactUpdateError(i, c, name, email) ==
    IF name # <<>> /\ ~validate_name(name)
    THEN "Contact name must be at least 2 characters long"
    ELSE IF email \notin {NoArg, <<>>} /\ ~validate_email(email)
    THEN "Invalid email format"
    ELSE IF email \notin {NoArg, <<>>} /\ contact_find_by_email(c, email) \notin {0, i}
    THEN "Contact already exists at this company"
    ELSE ""

\* Contact.update(name=..., email=...) on a Contact object of id i and
\* company_id c; the company_id of an object is the one of its row, which no
\* operation changes.  An UPDATE the store refuses makes the call return False.
ContactUpdate(i, c, name, email) ==
    /\ i \in 1..contactSeq
    /\ c \in 1..companySeq
    /\ i \in DOMAIN contacts => c = contacts[i].company_id
    /\ IF ContactUpdateError(i, c, name, email) # ""
       THEN /\ last' = [RetStr("contact_update", ContactUpdateError(i, c, name, email),
                               <<email>>) EXCEPT !.arg = i]
            /\ UNCHANGED contacts
       ELSE IF name = <<>> /\ email = NoArg
       THEN /\ last' = [RetStr("contact_update", "False", <<email>>) EXCEPT !.arg = i]
            /\ UNCHANGED contacts
       ELSE IF i \in DOMAIN contacts /\ email # NoArg
               /\ ~ContactsEmailUnique(i, c, Lower(email))
       THEN /\ last' = [RetStr("contact_update", "False", <<email>>) EXCEPT !.arg = i]
            /\ UNCHANGED contacts
       ELSE /\ contacts' =
                 IF i \in DOMAIN contacts
                 THEN [contacts EXCEPT
                         ![i].name = IF name # <<>> THEN Strip(name) ELSE @,
                         ![i].email = IF email # NoArg THEN Lower(email) ELSE @]
                 ELSE contacts
            /\ last' = [RetStr("contact_update", "True", <<email>>) EXCEPT !.arg = i]
    /\ UNCHANGED <<today, users, streaks, companies, applications, outreach, goals,
                   notifications, userQuests, cvAnalyses, onboarding>>
    /\ UNCHANGED <<seqVars, instVars>>

\* -------------------------------------------- specification: contacts
\* One user with two companies; contacts are created, updated and deleted,
\* without an email and with emails that differ in case or in a final newline.
SecondCompanyRow == [user_id |-> 1, name |-> Strip(<<"X", "b">>), website |-> NULL]
ContactEmailArgs == {<<>>, Email1, Email1Upper, Email1NL}

InitContact ==
    /\ today = 0
    /\ last = Ret("init", "ok")
    /\ users = Insert(EmptyTable, 1, FirstUserRow)
    /\ streaks = Insert(EmptyTable, 1, NewStreakRow)
    /\ companies = Insert(Insert(EmptyTable, 1, FirstCompanyRow), 2, SecondCompanyRow)
    /\ contacts = EmptyTable /\ applications = EmptyTable /\ outreach = EmptyTable
    /\ goals = EmptyTable /\ notifications = EmptyTable /\ userQuests = EmptyTable
    /\ cvAnalyses = EmptyTable /\ onboarding = EmptyTable
    /\ userSeq = 1 /\ companySeq = 2 /\ contactSeq = 0 /\ appSeq = 0
    /\ outreachSeq = 0 /\ goalSeq = 0 /\ notifSeq = 0 /\ questSeq = 0
    /\ cvSeq = 0 /\ onbSeq = 0
    /\ userInst = [s \in Slots |-> NoInst]
    /\ streakInst = [s \in Slots |-> NoInst]
    /\ appInst = [s \in Slots |-> NoInst]

NextContact ==
    \/ \E c \in 1..companySeq, e \in ContactEmailArgs : ContactCreate(c, GoodName, e)
    \/ \E i \in 1..contactSeq, c \in 1..companySeq, n \in {<<>>, GoodName, ShortName},
          e \in ContactEmailArgs \cup {NoArg} : ContactUpdate(i, c, n, e)
    \/ \E i \in 1..contactSeq : ContactDelete(i)

SpecContact == InitContact /\ [][NextContact]_vars

\* the call of the step gives contact `self` (0 for a new contact) of company
\* c an email that another contact of c has, ignoring case
WouldPairEmail(self, c, e) ==
    /\ e \notin {NoArg, <<>>}
    /\ \E k \in DOMAIN contacts \ {self} :
          contacts[k].company_id = c /\ SameEmail(contacts[k].email, e)

\* C15: after every step no company has two contacts with the same email,
\* ignoring case, unless they have none; and a Contact.create or
\* Contact.update that would give a contact the email of another contact of
\* its company raises a validation error.
C15_ContactEmailsUnique ==
    [][/\ \A k, l \in DOMAIN contacts' :
             (k # l /\ contacts'[k].company_id = contacts'[l].company_id
                    /\ contacts'[k].email # <<>>)
                => ~SameEmail(contacts'[k].email, contacts'[l].email)
       /\ (last'.op = "contact_create" /\ WouldPairEmail(0, last'.arg, last'.str[1]))
             => last'.res \notin {"ok", "True", "False"}
       /\ (last'.op = "contact_update" /\ last'.arg \in DOMAIN contacts
             /\ WouldPairEmail(last'.arg, contacts[last'.arg].company_id, last'.str[1]))
             => last'.res \notin {"ok", "True", "False"}]_vars

\* ------------------------------------------ OnboardingData: update, delete
\* the error OnboardingData.update raises, "" when it raises none; an
\* argument that is None or empty is "" (feeling) or <<>> (milestone)
OnboardingUpdateError(current_feeling, dream_milestone) ==
    IF current_feeling # "" /\ current_feeling \notin VALID_FEELINGS
    THEN "Invalid feeling"
    ELSE IF dream_milestone # <<>> /\ Len(Strip(dream_milestone)) < 10
    THEN "Dream milestone must be at least 10 characters long"
    ELSE ""

\* OnboardingData.update on an object of id i and user_id u: the UPDATE goes
\* to the rows of the object's user_id.  The user_id of an object is the one
\* of its row; of an object whose row is gone it is any user's.
OnboardingUpdate(i, u, current_feeling, dream_milestone) ==
    /\ i \in 1..onbSeq
    /\ u \in 1..userSeq
    /\ i \in DOMAIN onboarding => u = onboarding[i].user_id
    /\ IF OnboardingUpdateError(current_feeling, dream_milestone) # ""
       THEN /\ last' = [RetStr("onboarding_update",
                               OnboardingUpdateError(current_feeling, dream_milestone),
                               <<i, current_feeling, dream_milestone>>) EXCEPT !.arg = u]
            /\ UNCHANGED onboarding
       ELSE IF current_feeling = "" /\ dream_milestone = <<>>
       THEN /\ last' = [RetStr("onboarding_update", "False",
                               <<i, current_feeling, dream_milestone>>) EXCEPT !.arg = u]
            /\ UNCHANGED onboarding
       ELSE /\ onboarding' =
                 [k \in DOMAIN onboarding |->
                    IF onboarding[k].user_id = u
                    THEN [onboarding[k] EXCEPT
                            !.current_feeling =
                                IF current_feeling # "" THEN current_feeling ELSE @,
                            !.dream_milestone =
                                IF dream_milestone # <<>> THEN Strip(dream_milestone) ELSE @]
                    ELSE onboarding[k]]
            /\ last' = [RetStr("onboarding_update", "True",
                               <<i, current_feeling, dream_milestone>>) EXCEPT !.arg = u]
    /\ UNCHANGED <<today, users, streaks, companies, contacts, applications, outreach,
                   goals, notifications, userQuests, cvAnalyses>>
    /\ UNCHANGED <<seqVars, instVars>>

\* OnboardingData.delete on an object of id i
OnboardingDelete(i) ==
    /\ i \in 1..onbSeq
    /\ onboarding' = Remove(onboarding, {i} \cap DOMAIN onboarding)
    /\ last' = RetArg("onboarding_delete",
                      IF i \in DOMAIN onboarding THEN "True" ELSE "False", i)
    /\ UNCHANGED <<today, users, streaks, companies, contacts, applications, outreach,
                   goals, notifications, userQuests, cvAnalyses>>
    /\ UNCHANGED <<seqVars, instVars>>

\* ------------------------------------------ specification: onboarding
\* Two registered users; onboarding data is created, updated and deleted for
\* either of them, with feelings and milestones that pass and that fail.
FeelingArgs == {"Excited and ready", "Just getting started", "Happy"}
MilestoneArgs == {GoodMessage, ShortName}

InitOnboarding == InitUserDelete

NextOnboarding ==
    \/ \E u \in 1..userSeq, f \in FeelingArgs \ {"Just getting started"},
          d \in MilestoneArgs : OnboardingCreate(u, f, d)
    \/ \E i \in 1..onbSeq, u \in 1..userSeq, f \in FeelingArgs \cup {""},
          d \in MilestoneArgs \cup {<<>>} : OnboardingUpdate(i, u, f, d)
    \/ \E i \in 1..onbSeq : OnboardingDelete(i)

SpecOnboarding == InitOnboarding /\ [][NextOnboarding]_vars

\* C16: OnboardingData.create for a user who has onboarding data raises an
\* error and changes nothing; after every create, update and delete each user
\* has at most one onboarding row; a delete that returns True leaves its user
\* without a row, and a create with valid arguments for a user without a row
\* inserts one.
C16_OneOnboardingPerUser ==
    [][/\ (last'.op = "onboarding_create" /\ OwnedBy(onboarding, {last'.arg}) # {})
             => (last'.res # "ok" /\ onboarding' = onboarding)
       /\ \A u \in DOMAIN users' : Cardinality(OwnedBy(onboarding', {u})) <= 1
       /\ (last'.op = "onboarding_delete" /\ last'.res = "True")
             => OwnedBy(onboarding', {onboarding[last'.arg].user_id}) = {}
       /\ (last'.op = "onboarding_create" /\ OwnedBy(onboarding, {last'.arg}) = {}
             /\ last'.str[1] \in VALID_FEELINGS /\ Len(Strip(last'.str[2])) >= 10)
             => /\ last'.res = "ok"
                /\ \E k \in DOMAIN onboarding' \ DOMAIN onboarding :
                      /\ onboarding'[k].user_id = last'.arg
                      /\ onboarding' = Insert(onboarding, k, onboarding'[k])]_vars

\* a create has just succeeded for user 1, whose earlier onboarding row was
\* deleted, while user 2 has a row
C16_Witness ==
    /\ last.op = "onboarding_create" /\ last.res = "ok" /\ last.arg = 1
    /\ onbSeq = 3
    /\ \E k \in DOMAIN onboarding : onboarding[k].user_id = 2
    /\ Cardinality(DOMAIN onboarding) = 2

\* ------------------------------------------- UserQuest: queries, delete
\* UserQuest.get_completed_count(user_id)
get_completed_count(u) == Cardinality(OwnedBy(userQuests, {u}))

\* a call of UserQuest.is_completed
UserQuestIsCompleted(u, quest_id) ==
    /\ last' = [RetStr("is_completed",
                       IF is_completed(u, quest_id) THEN "True" ELSE "False",
                       <<quest_id>>) EXCEPT !.arg = u]
    /\ UNCHANGED <<today, tables, seqVars, instVars>>

\* a call of UserQuest.get_completed_count
UserQuestGetCompletedCount(u) ==
    /\ last' = [RetStr("get_completed_count", "ok", <<get_completed_count(u)>>)
                   EXCEPT !.arg = u]
    /\ UNCHANGED <<today, tables, seqVars, instVars>>

\* UserQuest.delete on an object of id q
UserQuestDelete(q) ==
    /\ q \in 1..questSeq
    /\ userQuests' = Remove(userQuests, {q} \cap DOMAIN userQuests)
    /\ last' = RetArg("user_quest_delete",
                      IF q \in DOMAIN userQuests THEN "True" ELSE "False", q)
    /\ UNCHANGED <<today, users, streaks, companies, contacts, applications, outreach,
                   goals, notifications, cvAnalyses, onboarding>>
    /\ UNCHANGED <<seqVars, instVars>>

\* UserQuest.reset_user_quests(user_id): returns the number of rows deleted
UserQuestReset(u) ==
    /\ userQuests' = Remove(userQuests, OwnedBy(userQuests, {u}))
    /\ last' = [RetStr("reset_user_quests", "ok", <<get_completed_count(u)>>)
                   EXCEPT !.arg = u]
    /\ UNCHANGED <<today, users, streaks, companies, contacts, applications, outreach,
                   goals, notifications, cvAnalyses, onboarding>>
    /\ UNCHANGED <<seqVars, instVars>>

\* ---------------------------------------------- specification: quests
\* Two registered users complete quests, ask for them, delete and reset them.
QuestLower == <<"a", "b">>
QuestShort == <<"m">>
QuestArgs == {GoodName, QuestLower, QuestShort}

InitQuest == InitUserDelete

NextQuest ==
    \/ \E u \in 1..userSeq, q \in QuestArgs : UserQuestCreate(u, q)
    \/ \E u \in 1..userSeq, q \in QuestArgs : UserQuestIsCompleted(u, q)
    \/ \E u \in 1..userSeq : UserQuestGetCompletedCount(u)
    \/ \E q \in 1..questSeq : UserQuestDelete(q)
    \/ \E u \in 1..userSeq : UserQuestReset(u)

SpecQuest == InitQuest /\ [][NextQuest]_vars

\* the rows of the table that record quest_id for user u
QuestRows(table, u, quest_id) ==
    {k \in DOMAIN table : table[k].user_id = u /\ table[k].quest_id = quest_id}

\* C17: UserQuest.create of a quest the user has completed raises an error
\* and changes nothing, so no (user, quest_id) pair is stored twice;
\* is_completed is true exactly when a row of the pair exists;
\* get_completed_count is the number of distinct quest ids the user has
\* completed; after reset_user_quests the user has no completed quest, the
\* other users keep theirs, and a create of a quest the user has not completed
\* succeeds.
C17_QuestsOncePerUser ==
    [][/\ (last'.op = "user_quest_create"
             /\ QuestRows(userQuests, last'.arg, last'.str[1]) # {})
             => (last'.res # "ok" /\ userQuests' = userQuests)
       /\ \A u \in DOMAIN users', q \in QuestArgs :
             Cardinality(QuestRows(userQuests', u, q)) <= 1
       /\ last'.op = "is_completed"
             => (last'.res = "True"
                   <=> QuestRows(userQuests, last'.arg, last'.str[1]) # {})
       /\ last'.op = "get_completed_count"
             => last'.str[1] = Cardinality({userQuests[k].quest_id :
                                               k \in OwnedBy(userQuests, {last'.arg})})
       /\ last'.op = "reset_user_quests"
             => /\ OwnedBy(userQuests', {last'.arg}) = {}
                /\ \A k \in DOMAIN userQuests :
                      userQuests[k].user_id # last'.arg
                         => (k \in DOMAIN userQuests' /\ userQuests'[k] = userQuests[k])
       /\ (last'.op = "user_quest_create" /\ Len(last'.str[1]) >= 2
             /\ QuestRows(userQuests, last'.arg, last'.str[1]) = {})
             => /\ last'.res = "ok"
                /\ Cardinality(QuestRows(userQuests', last'.arg, last'.str[1])) = 1]_vars

\* user 1 has completed a quest after the first completion was removed, while
\* user 2 keeps the same quest completed
C17_Witness ==
    /\ last.op = "user_quest_create" /\ last.res = "ok" /\ last.arg = 1
    /\ questSeq = 3
    /\ DOMAIN userQuests = {2, 3}
    /\ userQuests[2].user_id = 2
    /\ userQuests[2].quest_id = userQuests[3].quest_id

\* ----------------------------------------- specification: streak rows
\* Users register, are loaded and deleted, and Streak.get_or_create is called
\* for every user id handed out so far, deleted users included.
InitStreakRow == InitEmpty

NextStreakRow ==
    \/ \E e \in {Email1, Email1Upper, Email2}, n \in {GoodName, ShortName} :
          UserCreate(e, GoodPassword, n)
    \/ \E s \in Slots, i \in 1..userSeq : UserFind(s, i)
    \/ \E s \in Slots : UserDelete(s)
    \/ \E u \in 1..userSeq : StreakGetOrCreate("h1", u)

SpecStreakRow == InitStreakRow /\ [][NextStreakRow]_vars

MaxBlock == 2        \* the steps of a block
RaiseStep == [kind |-> "raise", u |-> 0, name |-> <<>>]
BlockSteps ==
    {[kind |-> k, u |-> u, name |-> n] :
        k \in {"cursor", "db"}, u \in 1..2, n \in {GoodName, NameUpper}}
    \cup {RaiseStep}
Blocks == UNION {[1..n -> BlockSteps] : n \in 1..MaxBlock}

\* companies (user_id, name) is UNIQUE ignoring the case of ASCII letters, and
\* user_id references users: the INSERT is accepted by the store
CompaniesInsertAccepted(store, u, name) ==
    /\ u \in DOMAIN users
    /\ \A c \in DOMAIN store.rows :
          ~(store.rows[c].user_id = u /\ NoCase(store.rows[c].name) = NoCase(name))

\* cursor.execute of the INSERT on a store that accepts it
ExecuteInsert(store, u, name) ==
    [rows |-> Insert(store.rows, store.seq + 1,
                     [user_id |-> u, name |-> name, website |-> NULL]),
     seq |-> store.seq + 1]

\* the block from step k on, with the committed store and the working store
\* of the connection: the result the caller sees and the store committed at
\* the end.  db.execute_insert commits when its statement has passed
\* (get_cursor); a statement that fails and an exception of the block end in
\* connection.rollback() and DatabaseError; the end of the block commits.
RECURSIVE RunBlock(_, _, _, _)
RunBlock(block, k, committed, working) ==
    IF k > Len(block) THEN [res |-> "ok", store |-> working]
    ELSE IF block[k].kind = "raise"
    THEN [res |-> "DatabaseError", store |-> committed]
    ELSE IF ~CompaniesInsertAccepted(working, block[k].u, block[k].name)
    THEN [res |-> "DatabaseError", store |-> committed]
    ELSE IF block[k].kind = "db"
    THEN RunBlock(block, k + 1,
                  ExecuteInsert(working, block[k].u, block[k].name),
                  ExecuteInsert(working, block[k].u, block[k].name))
    ELSE RunBlock(block, k + 1, committed,
                  ExecuteInsert(working, block[k].u, block[k].name))

\* `with db.transaction() as cursor:` around the block, no statement pending
\* on the connection when it starts
DbTransaction(block) ==
    LET start == [rows |-> companies, seq |-> companySeq]
        out == RunBlock(block, 1, start, start)
    IN
    /\ companySeq + Len(block) <= MaxCompanies
    /\ companies' = out.store.rows
    /\ companySeq' = out.store.seq
    /\ last' = RetStr("transaction", out.res, block)
    /\ UNCHANGED <<today, users, streaks, contacts, applications, outreach, goals,
                   notifications, userQuests, cvAnalyses, onboarding>>
    /\ UNCHANGED <<userSeq, contactSeq, appSeq, outreachSeq, goalSeq,
                   notifSeq, questSeq, cvSeq, onbSeq, instVars>>

\* ----------------------------------------- specification: transactions
\* One registered user; blocks of one or two steps run under db.transaction,
\* for the user and for a user id that is not stored, and companies are
\* deleted.
InitTransaction == InitRegistered

NextTransaction ==
    \/ \E block \in Blocks : DbTransaction(block)
    \/ \E c \in 1..companySeq : CompanyDelete(c)

SpecTransaction == InitTransaction /\ [][NextTransaction]_vars

\* the rows of the new table that the old one did not have
NewCompanies == DOMAIN companies' \ DOMAIN companies

\* C19: a block under db.transaction ends with DatabaseError or without
\* error; with DatabaseError, as it does when the block raises or a statement
\* names a user that is not stored, no row of the block is stored; without
\* error every statement of the block has its row stored.
C19_TransactionAtomic ==
    [][last'.op = "transaction" =>
         /\ last'.res \in {"ok", "DatabaseError"}
         /\ (\E k \in DOMAIN last'.str :
                last'.str[k].kind = "raise" \/ last'.str[k].u \notin DOMAIN users)
               => last'.res = "DatabaseError"
         /\ last'.res = "DatabaseError" => companies' = companies
         /\ last'.res = "ok"
               => /\ Cardinality(NewCompanies) = Len(last'.str)
                  /\ \A k \in DOMAIN last'.str :
                        \E c \in NewCompanies :
                           /\ companies'[c].user_id = last'.str[k].u
                           /\ companies'[c].name = last'.str[k].name
                  /\ \A c \in DOMAIN companies : companies'[c] = companies[c]]_vars

\* the same for the blocks whose statements all go through the cursor of
\* the block
CursorBlocksAtomic ==
    [][(last'.op = "transaction"
          /\ \A k \in DOMAIN last'.str : last'.str[k].kind # "db") =>
         /\ last'.res \in {"ok", "DatabaseError"}
         /\ (\E k \in DOMAIN last'.str :
                last'.str[k].kind = "raise" \/ last'.str[k].u \notin DOMAIN users)
               => last'.res = "DatabaseError"
         /\ last'.res = "DatabaseError" => companies' = companies
         /\ last'.res = "ok" => Cardinality(NewCompanies) = Len(last'.str)]_vars

\* ------------------------------------------------------- kinds of error
\* what a call hands back without raising
ReturnValues == {"ok", "True", "False", "None", "found"}

\* the class of the exception a call ends with, "none" when it returns: the
\* models raise ValueError for a check of their own that fails, and turn the
\* DatabaseError of a refused statement into a ValueError as well
ExceptionOf(res) == IF res \in ReturnValues THEN "none" ELSE "ValueError"

\* C20: an Application.create whose arguments pass validation and whose
\* INSERT the store refuses ends with the data-access error DatabaseError,
\* not with a validation error, and leaves every table as it was.
C20_StorageErrorsSurface ==
    [][(/\ last'.op = "app_create"
        /\ validate_job_title(last'.str[3]) /\ validate_status(last'.str[4])
        /\ ~AppInsertAccepted(last'.str[1], last'.str[2]))
          => (ExceptionOf(last'.res) = "DatabaseError" /\ UNCHANGED tables)]_vars

\* ------------------------------- specification: onboarding of one user
\* One registered user, so that every OnboardingData object carries the
\* user_id its row was created with, also when the row is gone.
InitOnboardingOne == InitRegistered

SpecOnboardingOne == InitOnboardingOne /\ [][NextOnboarding]_vars

\* C21: OnboardingData.update on an object of id i leaves every row but
\* row i as it was, changes of row i only the columns whose arguments were
\* given, and returns False without a change when no argument is given.
C21_UpdateChangesOnlyItsRow ==
    [][last'.op = "onboarding_update" =>
         /\ DOMAIN onboarding' = DOMAIN onboarding
         /\ \A k \in DOMAIN onboarding :
               k # last'.str[1] => onboarding'[k] = onboarding[k]
         /\ last'.str[1] \in DOMAIN onboarding =>
               /\ onboarding'[last'.str[1]].user_id = onboarding[last'.str[1]].user_id
               /\ last'.str[2] = "" =>
                     onboarding'[last'.str[1]].current_feeling
                        = onboarding[last'.str[1]].current_feeling
               /\ last'.str[3] = <<>> =>
                     onboarding'[last'.str[1]].dream_milestone
                        = onboarding[last'.str[1]].dream_milestone
         /\ (last'.str[2] = "" /\ last'.str[3] = <<>>)
               => (last'.res = "False" /\ onboarding' = onboarding)]_vars

\* the same for Contact.update on an object of id i: the other rows stay,
\* and the email of row i stays when no email is given
ContactUpdateFrame ==
    [][last'.op = "contact_update" =>
         /\ DOMAIN contacts' = DOMAIN contacts
         /\ \A k \in DOMAIN contacts : k # last'.arg => contacts'[k] = contacts[k]
         /\ (last'.arg \in DOMAIN contacts /\ last'.str[1] = NoArg)
               => contacts'[last'.arg].email = contacts[last'.arg].email]_vars

\* ------------------------------------- User: notification preferences
\* User.update_notification_preferences(preferences) on the object in slot s
UserUpdateNotificationPreferences(s, preferences) ==
    /\ userInst[s] # NoInst
    /\ users' = IF userInst[s].id \in DOMAIN users
                THEN [users EXCEPT ![userInst[s].id].notification_preferences =
                                       json_encode(preferences)]
                ELSE users
    /\ userInst' = [userInst EXCEPT ![s].notification_preferences = preferences]
    /\ last' = [RetStr("update_notification_preferences", "True", <<preferences>>)
                   EXCEPT !.arg = userInst[s].id]
    /\ UNCHANGED <<today, streaks, companies, contacts, applications, outreach, goals,
                   notifications, userQuests, cvAnalyses, onboarding>>
    /\ UNCHANGED <<seqVars, streakInst, appInst>>

\* ------------------------------------------ specification: JSON fields
\* One registered user; CV analyses are created with keyword lists and
\* deleted, and the user's notification preferences are set and reloaded.
KeywordArgs == {PyNone, PyList(<<>>), PyList(<<"sql">>), PyList(<<"sql", "go">>)}
PreferenceArgs == {PyDict(<<>>), PyDict(<<<<"follow_up", TRUE>>>>),
                   PyDict(<<<<"follow_up", FALSE>>, <<"goal_reminder", TRUE>>>>)}

InitJson == InitRegistered

NextJson ==
    \/ \E kw \in KeywordArgs :
          CVAnalysisCreateCall(1, GoodMessage, GoodDescription, 80, kw, 0)
    \/ \E i \in 1..cvSeq : CVAnalysisDelete(i)
    \/ \E s \in Slots : UserFind(s, 1)
    \/ \E s \in Slots, p \in PreferenceArgs : UserUpdateNotificationPreferences(s, p)

SpecJson == InitJson /\ [][NextJson]_vars

\* C22: the CVAnalysis reloaded by a CVAnalysis.create that succeeds holds
\* the matched_keywords list given, the empty list when none was given; and
\* after update_notification_preferences on a stored user the reloaded
\* user's notification_preferences is the dict given.
C22_JsonRoundTrip ==
    [][/\ (last'.op = "cv_analysis_create" /\ last'.res = "ok")
             => json_decode(cvAnalyses'[last'.arg].matched_keywords).type = "list"
                /\ json_decode(cvAnalyses'[last'.arg].matched_keywords).items
                      = last'.str[2].items
       /\ (last'.op = "update_notification_preferences" /\ last'.arg \in DOMAIN users')
             => json_decode(users'[last'.arg].notification_preferences).type = "dict"
                /\ json_decode(users'[last'.arg].notification_preferences).items
                      = last'.str[1].items]_vars

\* the same for the lists and dicts that are not empty
JsonRoundTripNonEmpty ==
    [][/\ (last'.op = "cv_analysis_create" /\ last'.res = "ok" /\ PyTruthy(last'.str[2]))
             => json_decode(cvAnalyses'[last'.arg].matched_keywords) = last'.str[2]
       /\ (last'.op = "update_notification_preferences" /\ last'.arg \in DOMAIN users'
             /\ PyTruthy(last'.str[1]))
             => json_decode(users'[last'.arg].notification_preferences) = last'.str[1]]_vars

\* ---------------------------------------------------- Outreach: follow-ups
\* `follow_up_date <= ?` on the TEXT column, the parameter an ISO date: NULL
\* compares to nothing, the empty string is below every date, and ISO dates
\* compare as the days they name
FollowUpDateLessEq(follow_up_date, day) ==
    /\ follow_up_date # NoDate
    /\ follow_up_date = EmptyDate \/ follow_up_date <= day

\* Outreach.needs_follow_up on the object of a row
needs_follow_up(self) ==
    IF ~DateTruthy(self.follow_up_date) \/ self.status # "Sent" THEN FALSE
    ELSE today >= self.follow_up_date

\* Outreach.get_pending_follow_ups(user_id): the ids of the rows returned
get_pending_follow_ups(u) ==
    {o \in DOMAIN outreach :
        /\ outreach[o].user_id = u
        /\ FollowUpDateLessEq(outreach[o].follow_up_date, today)
        /\ outreach[o].status = "Sent"}

\* a call of Outreach.get_pending_follow_ups
OutreachGetPendingFollowUps(u) ==
    /\ last' = [RetStr("get_pending_follow_ups", "ok", <<get_pending_follow_ups(u)>>)
                   EXCEPT !.arg = u]
    /\ UNCHANGED <<today, tables, seqVars, instVars>>

\* ------------------------------------------ specification: follow-ups
\* Two registered users, the first with a company, a contact and an
\* application; outreach is logged for either user with every kind of
\* follow_up_date, updated, and the pending follow-ups are asked for as the
\* days pass.
InitFollowUp ==
    /\ today = 0
    /\ last = Ret("init", "ok")
    /\ users = Insert(Insert(EmptyTable, 1, FirstUserRow), 2, SecondUserRow)
    /\ streaks = Insert(Insert(EmptyTable, 1, NewStreakRow), 2, NewStreakRow)
    /\ companies = Insert(EmptyTable, 1, FirstCompanyRow)
    /\ contacts = Insert(EmptyTable, 1, FirstContactRow)
    /\ applications = Insert(EmptyTable, 1, FirstAppRow)
    /\ outreach = EmptyTable
    /\ goals = EmptyTable /\ notifications = EmptyTable /\ userQuests = EmptyTable
    /\ cvAnalyses = EmptyTable /\ onboarding = EmptyTable
    /\ userSeq = 2 /\ companySeq = 1 /\ contactSeq = 1 /\ appSeq = 1
    /\ outreachSeq = 0 /\ goalSeq = 0 /\ notifSeq = 0 /\ questSeq = 0
    /\ cvSeq = 0 /\ onbSeq = 0
    /\ userInst = [s \in Slots |-> NoInst]
    /\ streakInst = [s \in Slots |-> NoInst]
    /\ appInst = [s \in Slots |-> NoInst]

NextFollowUp ==
    \/ NextDay
    \/ \E u \in 1..userSeq, d \in {NoDate, EmptyDate, 0, 1} :
          OutreachCreate(u, 1, "email", GoodMessage, 1, 0, d, "Sent")
    \/ \E i \in 1..outreachSeq, d \in {NoDate, EmptyDate, today},
          st \in {NULL, "Responded", "No Response"} : OutreachUpdate(i, d, st)
    \/ \E u \in 1..userSeq : OutreachGetPendingFollowUps(u)

SpecFollowUp == InitFollowUp /\ [][NextFollowUp]_vars

\* C23: get_pending_follow_ups(user) returns exactly the outreach records of
\* the user for which needs_follow_up() is true.
C23_PendingFollowUps ==
    [][last'.op = "get_pending_follow_ups" =>
         last'.str[1] = {o \in DOMAIN outreach :
                            outreach[o].user_id = last'.arg
                               /\ needs_follow_up(outreach[o])}]_vars

\* the same when no stored follow_up_date is the empty string
PendingFollowUpsOfDates ==
    [][(last'.op = "get_pending_follow_ups"
          /\ \A o \in DOMAIN outreach : outreach[o].follow_up_date # EmptyDate) =>
         last'.str[1] = {o \in DOMAIN outreach :
                            outreach[o].user_id = last'.arg
                               /\ needs_follow_up(outreach[o])}]_vars

\* ------------------------------------- specification: the goal of the week
\* Two registered users ask for the goal of the current week with valid and
\* invalid targets, count applications on it, create goals for a week_start
\* of their own and delete goals, from a Saturday on into the next week.
InitGoalWeek == InitUserDelete

\* goal ids are 1..MaxWeekGoals here
MaxWeekGoals == 2

NextGoalWeek ==
    \/ NextDay
    \/ \E u \in 1..userSeq, ag \in {0, 5} :
          /\ find_by_week(u, get_week_start(NoDate)) = {} => goalSeq < MaxWeekGoals
          /\ GoalGetOrCreateCurrentWeek(u, ag, 3)
    \/ \E i \in 1..goalSeq : GoalIncrementApplications(i, 1)
    \/ \E u \in 1..userSeq : goalSeq < MaxWeekGoals /\ GoalCreate(u, 5, 3, 0)
    \/ \E i \in 1..goalSeq : GoalDelete(i)

SpecGoalWeek == InitGoalWeek /\ [][NextGoalWeek]_vars

\* the goals of user u whose week_start is the Monday of the current week
CurrentWeekGoals(table, u) ==
    {g \in DOMAIN table : table[g].user_id = u /\ table[g].week_start = get_week_start(today)}

\* C24: get_or_create_current_week for a user without a goal for the current
\* week stores exactly one new goal, of that user, for the Monday of the week
\* and with no progress, and returns it; for a user with a goal for the
\* current week it returns that goal and writes nothing; a user never has two
\* goals for the current week, so later calls in the week return the same id.
\* A call is refused only for a target that is not positive, before any goal
\* of the week exists, and stores nothing.
C24_GetOrCreateIdempotent ==
    [][/\ \A u \in DOMAIN users : Cardinality(CurrentWeekGoals(goals, u)) <= 1
       /\ \A u \in DOMAIN users :
            (last'.op = "goal_get_or_create" /\ last'.res \in {"ok", "found"}
               /\ (\E g \in DOMAIN goals' : g = last'.str[1] /\ goals'[g].user_id = u)) =>
              IF CurrentWeekGoals(goals, u) = {}
              THEN /\ last'.res = "ok"
                   /\ DOMAIN goals' = DOMAIN goals \cup {last'.str[1]}
                   /\ last'.str[1] \notin DOMAIN goals
                   /\ goals'[last'.str[1]] =
                         [user_id |-> u, week_start |-> get_week_start(today),
                          applications_goal |-> goals'[last'.str[1]].applications_goal,
                          applications_current |-> 0,
                          outreach_goal |-> goals'[last'.str[1]].outreach_goal]
                   /\ \A g \in DOMAIN goals : goals'[g] = goals[g]
              ELSE /\ last'.res = "found"
                   /\ CurrentWeekGoals(goals, u) = {last'.str[1]}
                   /\ goals' = goals /\ goalSeq' = goalSeq
       /\ (last'.op = "goal_get_or_create" /\ last'.res \notin {"ok", "found"}) =>
            /\ goals' = goals
            /\ last'.res = "Applications goal must be a positive integer"
            /\ \A u \in DOMAIN users :
                 CurrentWeekGoals(goals, u) # {} => last'.res # "Goal already exists"]_vars

\* a later call, on the next day of the week, returns the goal the first
\* call created, with the application counted on it in between
C24_Witness ==
    /\ last.op = "goal_get_or_create" /\ last.res = "found" /\ last.str = <<1>>
    /\ today = 1
    /\ 1 \in DOMAIN goals /\ goals[1].applications_current = 1
    /\ goals[1].week_start = get_week_start(today)

\* C25: every stored application's company is owned by the application's
\* user, and every stored outreach's contact, linked application and linked
\* company belong to the outreach's user.
C25_OwnershipConsistent ==
    /\ \A a \in DOMAIN applications :
          /\ applications[a].company_id \in DOMAIN companies
          /\ companies[applications[a].company_id].user_id = applications[a].user_id
    /\ \A o \in DOMAIN outreach :
          /\ outreach[o].contact_id \in DOMAIN contacts
          /\ contacts[outreach[o].contact_id].company_id \in DOMAIN companies
          /\ companies[contacts[outreach[o].contact_id].company_id].user_id
                = outreach[o].user_id
          /\ outreach[o].application_id # 0 =>
                /\ outreach[o].application_id \in DOMAIN applications
                /\ applications[outreach[o].application_id].user_id = outreach[o].user_id
          /\ outreach[o].company_id # 0 =>
                /\ outreach[o].company_id \in DOMAIN companies
                /\ companies[outreach[o].company_id].user_id = outreach[o].user_id

\* the references of every stored application and outreach are stored rows
ReferencesStored ==
    /\ \A a \in DOMAIN applications :
          applications[a].company_id \in DOMAIN companies
             /\ applications[a].user_id \in DOMAIN users
    /\ \A o \in DOMAIN outreach :
          /\ outreach[o].user_id \in DOMAIN users
          /\ outreach[o].contact_id \in DOMAIN contacts
          /\ outreach[o].application_id # 0 =>
                outreach[o].application_id \in DOMAIN applications
          /\ outreach[o].company_id # 0 => outreach[o].company_id \in DOMAIN companies

\* ------------------------------------------- specification: profile updates
\* Two registered users are loaded into two handles and given new names and
\* emails, valid and invalid, together and one at a time.
InitProfile == InitUserDelete

NextProfile ==
    \/ \E s \in Slots, i \in 1..userSeq : UserFind(s, i)
    \/ \E s \in Slots, n \in {<<>>, NameUpper, ShortName},
          e \in {<<>>, Email1, Email2, <<"a", "@", "b">>} : UserUpdateProfile(s, n, e)

SpecProfile == InitProfile /\ [][NextProfile]_vars

\* C26: a User.update_profile that raises or returns False leaves the fields
\* of the object it was called on as they were.
C26_FailedUpdateKeepsObject ==
    [][(last'.op = "user_update_profile" /\ last'.res # "True") =>
          userInst' = userInst]_vars

\* a User.update_profile that raises or returns False writes no row
FailedUpdateKeepsRows ==
    [][(last'.op = "user_update_profile" /\ last'.res # "True") => users' = users]_vars

\* ---------------------------------------- specification: password by handle
\* One registered user is loaded into two handles, and the password is
\* changed through either handle with the first or the second password given
\* as the old one.
InitHandles == InitRegistered

NextHandles ==
    \/ \E s \in Slots : UserFind(s, 1)
    \/ \E s \in Slots, old \in {GoodPassword, OtherPassword},
          new \in {GoodPassword, OtherPassword, <<>>} : UserChangePassword(s, old, new)
    \/ \E p \in {GoodPassword, OtherPassword} : UserAuthenticate(Email1, p)

SpecHandles == InitHandles /\ [][NextHandles]_vars

\* C27: a change_password(old, new) that returns True was given as old the
\* password stored for the user when it was called.
C27_OldPasswordIsStored ==
    [][(last'.op = "user_change_password" /\ last'.res = "True") =>
          /\ last'.arg \in DOMAIN users
          /\ users[last'.arg].password_hash = hash_password(last'.str[2])]_vars

\* a change_password that returns True was given as old the password of the
\* object it was called on
OldPasswordIsOfObject ==
    [][(last'.op = "user_change_password" /\ last'.res = "True") =>
          \E s \in Slots :
             /\ userInst[s] # NoInst /\ userInst[s].id = last'.arg
             /\ userInst[s].password_hash = hash_password(last'.str[2])]_vars

\* C28: the stored current_streak of every user is at most the stored
\* longest_streak, and neither is negative.
C28_CurrentAtMostLongest ==
    \A u \in DOMAIN streaks :
        /\ 0 <= streaks[u].current_streak
        /\ streaks[u].current_streak <= streaks[u].longest_streak

\* an update_activity on an object loaded before other updates has just
\* stored a longest_streak below the one another object holds
C28_Witness ==
    /\ last.op = "update_activity"
    /\ 1 \in DOMAIN streaks
    /\ streaks[1].current_streak = 1 /\ streaks[1].longest_streak = 1
    /\ \E s \in Slots : streakInst[s] # NoInst /\ streakInst[s].longest_streak = 2

\* C29: after an update_activity that returns True the stored current_streak
\* of the object's user is at least 1 and the stored last_activity_date is
\* today.
C29_UpdateActivityStarts ==
    [][(last'.op = "update_activity" /\ last'.res = "True") =>
          LET u == streakInst'[last'.slot].user_id IN
          /\ u \in DOMAIN streaks'
          /\ streaks'[u].current_streak >= 1
          /\ streaks'[u].last_activity_date = today']_vars

\* after an update_activity that returns True the stored last_activity_date
\* is today and the stored longest_streak is at least 1
UpdateActivityStamps ==
    [][(last'.op = "update_activity" /\ last'.res = "True") =>
          LET u == streakInst'[last'.slot].user_id IN
          /\ u \in DOMAIN streaks'
          /\ streaks'[u].longest_streak >= 1
          /\ streaks'[u].last_activity_date = today']_vars

\* ------------------------------------------ specification: applied dates
\* One user with a company; applications are created with and without an
\* applied_date, loaded into two handles, and updated with a status, an
\* applied_date (a date or the empty string) or both, as the days pass.
InitAppDate == InitApp

NextAppDate ==
    \/ NextDay
    \/ \E st \in {"Planned", "Applied"}, d \in {NoDate, EmptyDate} :
          AppCreate(1, 1, GoodName, st, d)
    \/ \E s \in Slots, i \in 1..appSeq : AppFind(s, i)
    \/ \E s \in Slots, st \in {"Applied", "Interview"} : AppUpdateStatus(s, st)
    \/ \E s \in Slots, st \in {NULL, "Applied"}, d \in {NoDate, EmptyDate, today} :
          AppUpdate(s, st, d)

SpecAppDate == InitAppDate /\ [][NextAppDate]_vars

\* C30: every stored application whose status is 'Applied' has an
\* applied_date that is neither NULL nor the empty string.
C30_AppliedHasDate ==
    \A a \in DOMAIN applications :
        applications[a].status = "Applied" => DateTruthy(applications[a].applied_date)

\* every stored application whose status is 'Applied' has an applied_date
\* that is not NULL
AppliedDateNotNull ==
    \A a \in DOMAIN applications :
        applications[a].status = "Applied" => applications[a].applied_date # NoDate

====
